---------------------------- MODULE Spec2Model ----------------------------
(***************************************************************************)
(* Session lifecycle, keep-alive, recovery and subscription registries of  *)
(* the OPC UA client (opcua_client/connection.py, opcua_client/client.py,  *)
(* opcua_client/subscription.py, opcua_app.py, opcua_app_handlers.py).     *)
(*                                                                         *)
(* The asyncio program is modelled at the granularity of its await points: *)
(* the keep-alive worker and the multi-await recovery routines are split   *)
(* into one action per await, every other call is one atomic action.       *)
(* asyncua (Client, Subscription) and the server are the environment.      *)
(***************************************************************************)
EXTENDS Integers, Sequences, FiniteSets, TLC

(***************************************************************************)
(* Bounds of the model.                                                    *)
(***************************************************************************)
MaxClients == 2      \* asyncua Client objects constructed in one run
MaxSubId == 4        \* subscriptions the server creates in one run
MaxSubs == 2         \* subscriptions the user keeps in one list
MaxItems == 2        \* monitored items the user adds to one subscription
MaxElapsed == 6      \* keep-alive intervals counted since the last success

(***************************************************************************)
(* Program constants.                                                      *)
(***************************************************************************)
max_reconnect_attempts == 5
max_values == 100           \* DataChangeHandler.__init__, the default of max_values

DEFAULT_SERVER_URL == "opc.tcp://mkketi:62541/Quickstarts/ReferenceServer"
OTHER_SERVER_URL == "opc.tcp://other:4840"
Urls == {DEFAULT_SERVER_URL, OTHER_SERVER_URL}
Names == {"s1", "s2"}
NodeIds == {"n1", "n2"}

NoClient == 0
NoSession == "none"

VARIABLES
    clients,             \* Client objects: <<[url, conn]>>, index = object identity
    ka,                  \* keep-alive task of each client: [st, pc, attempts, elapsed]
    keep_alive_tasks,    \* connection._keep_alive_tasks: url -> client whose task is stored
    sessions,            \* MultiSessionManager.sessions: name -> client
    srvUp,               \* urls on which the server accepts connections
    srv,                 \* server side: subscription id -> [client, pub, handles]
    srvNodes,            \* node ids that exist in the server's address space
    nextSubId,           \* next subscription id the server assigns
    current_session_id,  \* opcua_app.current_session_id
    subscription_lists,  \* opcua_app.subscription_lists: name -> <<sub_info>>; a sub_info
                         \* holds its Subscription object and that object's parameters
    upc,                 \* position of the user task inside a multi-await routine
    uctx,                \* locals of that routine: [choice, client, reconnected]
    ocl,                 \* an OpcUaClient object: [client, subscriptions]
    cobj,                \* a Connection object: [client, is_connected]
    subObjs,             \* Subscription objects OpcUaClient.create_subscription has returned
    itemData,            \* Subscription._monitoreditems_map of those objects:
                         \* subscription id -> (server handle -> [mfilter])
    handler,             \* a DataChangeHandler object and its calls in progress
    fm,                  \* a call of method.find_methods: its address space, the
                         \* frames of its recursion and the list it returns
    userClosed,          \* history: clients whose close through the API has completed
    lastCall             \* history: the call the last step completed, and its outcome

vars == <<clients, ka, keep_alive_tasks, sessions, srvUp, srv, srvNodes, nextSubId,
          current_session_id, subscription_lists, upc, uctx, ocl, cobj, subObjs,
          itemData, handler, fm, userClosed, lastCall>>

connVars == <<clients, ka, keep_alive_tasks, srv>>
appVars == <<current_session_id, subscription_lists, upc, uctx>>
envVars == <<srvUp, srvNodes, nextSubId>>
libVars == <<ocl, cobj, subObjs, itemData, handler, fm>>

ClientIds == 1..Len(clients)

(***************************************************************************)
(* Helpers on functions with a changing domain (Python dicts).             *)
(***************************************************************************)
DictSet(d, k, v) == [x \in (DOMAIN d) \cup {k} |-> IF x = k THEN v ELSE d[x]]
DictDel(d, k) == [x \in (DOMAIN d) \ {k} |-> d[x]]
EmptyDict == [x \in {} |-> 0]

\* The last step was no call of the API (a keep-alive or environment step).
NoCall ==
    [op |-> "none", name |-> "none", cl |-> 0, sub |-> 0, res |-> "ok", disc |-> FALSE]

\* A completed call: the operation, the session name and client it was given,
\* how it ended, and whether it invoked Client.disconnect().
Call(op, name, cl, res, disc) ==
    [op |-> op, name |-> name, cl |-> cl, sub |-> 0, res |-> res, disc |-> disc]

(***************************************************************************)
(* asyncua Client: connect() and disconnect().                             *)
(***************************************************************************)
\* Subscriptions live in a server session: they are gone once the client's
\* session is closed or replaced by a new one.
SrvDropClient(s, c) == [i \in {j \in DOMAIN s : s[j].client # c} |-> s[i]]

\* Client.connect(): succeeds iff the server at the client's url accepts.
ConnectOk(c) == clients[c].url \in srvUp

\* Client.disconnect() on a client that is not connected is a call the callers
\* guard with try/except: it may return or raise.
DisconnectOutcomes(c) ==
    IF clients[c].conn = "connected" THEN {"ok"} ELSE {"ok", "raise"}

Disconnected(cl, c) == [cl EXCEPT ![c].conn = "closed"]

\* The locals of a worker: attempts is reconnect_attempts; elapsed is
\* current_time - last_success_time, counted in failed keep-alive intervals.
KaIdle == [st |-> "none", pc |-> "tick", attempts |-> 0, elapsed |-> 0]
KaStarted == [st |-> "running", pc |-> "tick", attempts |-> 0, elapsed |-> 0]

\* DataChangeHandler.__init__, lines 416-442, with store_values = True and a
\* callback: stored_values is empty. calls are the datachange_notification
\* coroutines in progress, arrived counts the notifications of each node;
\* given (history) is the order in which the callback was called, raised and
\* escaped (history) the exceptions of the callback and those that left
\* the handler. max_values has its default.
\* No call of find_methods has been made.
NoFind ==
    [st |-> "idle", refs |-> <<>>, methods |-> <<>>, stack |-> <<>>,
     overflow |-> FALSE, result |-> <<>>]

NewHandler ==
    [stored_values |-> [n \in NodeIds |-> <<>>], max_values |-> max_values, calls |-> <<>>,
     arrived |-> [n \in NodeIds |-> 0], given |-> [n \in NodeIds |-> <<>>],
     raised |-> 0, afterRaise |-> FALSE, escaped |-> FALSE]

Init ==
    /\ clients = <<>>
    /\ ka = <<>>
    /\ keep_alive_tasks = [u \in Urls |-> NoClient]
    /\ sessions = EmptyDict
    /\ srvUp = Urls
    /\ srv = EmptyDict
    /\ srvNodes = NodeIds
    /\ nextSubId = 1
    /\ current_session_id = NoSession
    /\ subscription_lists = EmptyDict
    /\ upc = "idle"
    /\ uctx = [choice |-> "none", client |-> NoClient, reconnected |-> FALSE]
    /\ ocl = [client |-> NoClient, subscriptions |-> <<>>]
    /\ cobj = [client |-> NoClient, is_connected |-> FALSE]
    /\ subObjs = {}
    /\ itemData = EmptyDict
    /\ handler = NewHandler
    /\ fm = NoFind
    /\ userClosed = {}
    /\ lastCall = NoCall

(***************************************************************************)
(* connection._keep_alive_worker, one action per await.                    *)
(***************************************************************************)
KaRunning(c) == c \in ClientIds /\ ka[c].st = "running"

\* lines 38-59, 89-90: the read of the server time node, then the sleep.
KA_Tick(c) ==
    /\ KaRunning(c) /\ ka[c].pc = "tick"
    /\ IF clients[c].conn = "connected"
       THEN ka' = [ka EXCEPT ![c].attempts = 0, ![c].elapsed = 0]
       ELSE LET n == ka[c].attempts + 1 IN
            ka' = [ka EXCEPT ![c].attempts = n,
                             ![c].elapsed = IF @ < MaxElapsed THEN @ + 1 ELSE @,
                             ![c].pc = IF n <= max_reconnect_attempts
                                       THEN "disconnect" ELSE "backoff"]
    /\ UNCHANGED <<clients, keep_alive_tasks, srv, sessions, envVars, libVars, appVars, userClosed>> /\ lastCall' = NoCall

\* lines 63-70: client.disconnect(), errors ignored, then sleep(0.5).
KA_Disconnect(c) ==
    /\ KaRunning(c) /\ ka[c].pc = "disconnect"
    /\ clients' = Disconnected(clients, c)
    /\ srv' = SrvDropClient(srv, c)
    /\ ka' = [ka EXCEPT ![c].pc = "connect"]
    /\ UNCHANGED <<keep_alive_tasks, sessions, envVars, libVars, appVars, userClosed>> /\ lastCall' = NoCall

\* A reconnection whose success leaves the counter and the timestamp alone.
KA_ConnectNoReset(c) ==
    /\ KaRunning(c) /\ ka[c].pc = "connect"
    /\ clients' = IF ConnectOk(c) THEN [clients EXCEPT ![c].conn = "connected"] ELSE clients
    /\ ka' = [ka EXCEPT ![c].pc = "tick"]
    /\ UNCHANGED <<keep_alive_tasks, srv, sessions, envVars, libVars, appVars, userClosed>> /\ lastCall' = NoCall

\* lines 71-82: client.connect() on the same Client object, then
\* get_namespace_array(); success resets the counter, an exception is logged.
KA_Connect(c) ==
    /\ KaRunning(c) /\ ka[c].pc = "connect"
    /\ IF ConnectOk(c)
       THEN /\ clients' = [clients EXCEPT ![c].conn = "connected"]
            /\ ka' = [ka EXCEPT ![c].pc = "tick", ![c].attempts = 0, ![c].elapsed = 0]
       ELSE /\ ka' = [ka EXCEPT ![c].pc = "tick"]
            /\ UNCHANGED clients
    /\ UNCHANGED <<keep_alive_tasks, srv, sessions, envVars, libVars, appVars, userClosed>> /\ lastCall' = NoCall

\* lines 71-74, 81-82: client.connect() succeeds and the link fails before
\* get_namespace_array() has returned; the exception is logged and the
\* counter and the timestamp stay as they are.
KA_ConnectUnverified(c) ==
    /\ KaRunning(c) /\ ka[c].pc = "connect"
    /\ ConnectOk(c)
    /\ clients' = [clients EXCEPT ![c].conn = "lost"]
    /\ ka' = [ka EXCEPT ![c].pc = "tick"]
    /\ UNCHANGED <<keep_alive_tasks, srv, sessions, envVars, libVars, appVars, userClosed>> /\ lastCall' = NoCall

\* A pause that leaves the counter as it is.
KA_BackoffNoReset(c) ==
    /\ KaRunning(c) /\ ka[c].pc = "backoff"
    /\ ka' = [ka EXCEPT ![c].pc = "tick"]
    /\ UNCHANGED <<clients, keep_alive_tasks, srv, sessions, envVars, libVars, appVars, userClosed>> /\ lastCall' = NoCall

\* A pause that never ends.
KA_BackoffForever(c) ==
    /\ KaRunning(c) /\ ka[c].pc = "backoff"
    /\ UNCHANGED vars

\* lines 83-87: the pause after max_reconnect_attempts failures.
KA_Backoff(c) ==
    /\ KaRunning(c) /\ ka[c].pc = "backoff"
    /\ ka' = [ka EXCEPT ![c].pc = "tick", ![c].attempts = 0]
    /\ UNCHANGED <<clients, keep_alive_tasks, srv, sessions, envVars, libVars, appVars, userClosed>> /\ lastCall' = NoCall

(***************************************************************************)
(* connection.create_session and connection.close_session.                 *)
(***************************************************************************)
NewClient == Len(clients) + 1

CancelTask(k, c) ==
    IF c # NoClient /\ k[c].st = "running" THEN [k EXCEPT ![c].st = "cancelled"] ELSE k

\* connection.create_session(server_url): the Client object is NewClient.
\* The connect either succeeds (the keep-alive task is started, replacing and
\* cancelling the task stored for the same url) or raises.
CreateSessionOk(url) == url \in srvUp

CS_Clients(url) ==
    Append(clients, [url |-> url,
                     conn |-> IF CreateSessionOk(url) THEN "connected" ELSE "closed"])

CS_Ka(url) ==
    IF CreateSessionOk(url)
    THEN Append(CancelTask(ka, keep_alive_tasks[url]), KaStarted)
    ELSE Append(ka, KaIdle)

CS_Tasks(url) ==
    IF CreateSessionOk(url)
    THEN [keep_alive_tasks EXCEPT ![url] = NewClient]
    ELSE keep_alive_tasks

\* connection.close_session(client), lines 292-302: every stored task that is
\* not done is cancelled, awaited and removed, whatever client it belongs to.
RECURSIVE CancelAll(_, _)
CancelAll(k, us) ==
    IF us = {} THEN k
    ELSE LET u == CHOOSE x \in us : TRUE
         IN CancelAll(CancelTask(k, keep_alive_tasks[u]), us \ {u})

\* A close that leaves every keep-alive task running.
CloseS_KaKeep == ka

CloseS_Ka == CancelAll(ka, Urls)

CloseS_Tasks ==
    [u \in Urls |->
        IF keep_alive_tasks[u] # NoClient /\ ka[keep_alive_tasks[u]].st = "running"
        THEN NoClient ELSE keep_alive_tasks[u]]

(***************************************************************************)
(* MultiSessionManager.                                                    *)
(***************************************************************************)
\* A session manager that never finds a name in use.
MSM_NameNeverInUse(name) == FALSE

\* create_session(session_id, server_url), lines 317-333.
MSM_NameInUse(name) == name \in DOMAIN sessions

MSM_CreateSession(name, url) ==
    /\ upc = "idle"
    /\ IF MSM_NameInUse(name)
       THEN /\ lastCall' = Call("msm_create_session", name, NoClient, "ValueError", FALSE)
            /\ UNCHANGED <<clients, ka, keep_alive_tasks, sessions, userClosed>>
       ELSE /\ Len(clients) < MaxClients
            /\ clients' = CS_Clients(url)
            /\ ka' = CS_Ka(url)
            /\ keep_alive_tasks' = CS_Tasks(url)
            /\ IF CreateSessionOk(url)
               THEN /\ sessions' = DictSet(sessions, name, NewClient)
                    /\ UNCHANGED userClosed
                    /\ lastCall' = Call("msm_create_session", name, NewClient, "ok", FALSE)
               ELSE /\ lastCall' = Call("msm_create_session", name, NewClient, "raise", FALSE)
                    /\ UNCHANGED <<sessions, userClosed>>
    /\ UNCHANGED <<srv, envVars, libVars, appVars>>

\* close_session(session_id), lines 347-356: disconnect, then delete the
\* entry; an exception of disconnect() leaves the entry in place.
MSM_CloseSession(name) ==
    /\ upc = "idle"
    /\ IF name \in DOMAIN sessions
       THEN \E out \in DisconnectOutcomes(sessions[name]) :
            /\ clients' = Disconnected(clients, sessions[name])
            /\ srv' = SrvDropClient(srv, sessions[name])
            /\ sessions' = IF out = "ok" THEN DictDel(sessions, name) ELSE sessions
            /\ userClosed' = IF out = "ok" THEN userClosed \cup {sessions[name]} ELSE userClosed
            /\ lastCall' = Call("msm_close_session", name, sessions[name], out, TRUE)
       ELSE /\ lastCall' = Call("msm_close_session", name, NoClient, "ok", FALSE)
            /\ UNCHANGED <<clients, srv, sessions, userClosed>>
    /\ UNCHANGED <<ka, keep_alive_tasks, envVars, libVars, appVars>>

(***************************************************************************)
(* Environment: the link of a connected client fails.                      *)
(***************************************************************************)
LinkFail(c) ==
    /\ c \in ClientIds /\ clients[c].conn = "connected"
    /\ clients' = [clients EXCEPT ![c].conn = "lost"]
    /\ UNCHANGED <<ka, keep_alive_tasks, srv, sessions, envVars, libVars, appVars, userClosed>> /\ lastCall' = NoCall

\* The server at a url stops accepting connections and drops the ones it
\* has; later it accepts connections again.
RECURSIVE DropLinks(_, _)
DropLinks(cl, u) ==
    IF cl = <<>> THEN <<>>
    ELSE <<IF Head(cl).url = u /\ Head(cl).conn = "connected"
           THEN [Head(cl) EXCEPT !.conn = "lost"] ELSE Head(cl)>>
         \o DropLinks(Tail(cl), u)

ServerDown(u) ==
    /\ u \in srvUp
    /\ srvUp' = srvUp \ {u}
    /\ clients' = DropLinks(clients, u)
    /\ lastCall' = NoCall
    /\ UNCHANGED <<ka, keep_alive_tasks, srv, sessions, srvNodes, nextSubId, libVars,
                   appVars, userClosed>>

ServerUp(u) ==
    /\ u \in Urls \ srvUp
    /\ srvUp' = srvUp \cup {u}
    /\ lastCall' = NoCall
    /\ UNCHANGED <<connVars, sessions, srvNodes, nextSubId, libVars, appVars, userClosed>>

\* The keep-alive worker of client c.
KeepAlive(c) ==
    \/ KA_Tick(c) \/ KA_Disconnect(c) \/ KA_Connect(c) \/ KA_Backoff(c)

\* The worker where the server accepts every connection and the link holds
\* while a connection is verified: its back-off, which takes
\* max_reconnect_attempts failed reconnects in a row, is out of reach.
KeepAliveUp(c) ==
    \/ KA_Tick(c) \/ KA_Disconnect(c) \/ KA_Connect(c)

(***************************************************************************)
(* Server side of a subscription, as asyncua's Subscription object sees it.*)
(***************************************************************************)
DefaultParams ==
    [publishing_interval |-> 1000, lifetime_count |-> 600,
     max_keep_alive_count |-> 20, priority |-> 0]

\* A Subscription object is [id, client]; its requests succeed only while the
\* server still holds that id in the session of that client.
SubLive(sv, cl, sub) ==
    /\ sub.id \in DOMAIN sv
    /\ sv[sub.id].client = sub.client
    /\ cl[sub.client].conn = "connected"

\* subscription.validate_subscription_parameters, lines 37-55.
validate_subscription_parameters(p) ==
    IF p.lifetime_count < p.max_keep_alive_count * 3
    THEN [p EXCEPT !.lifetime_count = p.max_keep_alive_count * 3]
    ELSE p

\* CreateSubscription: publishing enabled, no items, handles counted from 1;
\* revised holds the parameters the server runs the subscription with.
SrvNewSubRevised(c, rev) ==
    [client |-> c, pub |-> TRUE, nh |-> 1, handles |-> {}, filters |-> EmptyDict,
     revised |-> rev]

\* A server that accepts the parameters it is asked for.
SrvNewSub(c) == SrvNewSubRevised(c, DefaultParams)

\* CreateMonitoredItems for one node: refused for a node the server lacks.
ItemCreatable(n) == n \in srvNodes

\* The filter of a monitored item as the server holds it: none, or the
\* ua.DataChangeFilter of lines 836-839 (Trigger 1, DeadbandType 1 = absolute).
NoFilter == [type |-> "None"]
DataChangeFilter(d) ==
    [type |-> "DataChangeFilter", Trigger |-> 1, DeadbandType |-> 1, DeadbandValue |-> d]

\* The item is created without a filter: no caller of subscribe_data_change
\* passes one.
SrvAddItem(sv, id) ==
    [sv EXCEPT ![id].nh = @ + 1, ![id].handles = @ \cup {sv[id].nh},
               ![id].filters = DictSet(@, sv[id].nh, NoFilter)]

(***************************************************************************)
(* subscription.delete_subscription / set_publishing_mode (library).       *)
(***************************************************************************)
\* delete_subscription(sub), lines 353-359: True iff sub.delete() did not raise.
DeleteSubscriptionOk(sv, cl, sub) == SubLive(sv, cl, sub)

DeleteSubscriptionSrv(sv, cl, sub) ==
    IF DeleteSubscriptionOk(sv, cl, sub) THEN DictDel(sv, sub.id) ELSE sv

\* set_publishing_mode(sub, publishing), lines 373-394: the request is sent to
\* the server; nothing is recorded on the client.
SetPublishingModeOk(sv, cl, sub) == SubLive(sv, cl, sub)

SetPublishingModeSrv(sv, cl, sub, publishing) ==
    IF SetPublishingModeOk(sv, cl, sub) THEN [sv EXCEPT ![sub.id].pub = publishing] ELSE sv

(***************************************************************************)
(* opcua_app.recreate_subscriptions, lines 1519-1630.                      *)
(* The fields h_key, h_pubOff (of a sub_info) and h_handle (of an item)    *)
(* are history: the key and handle the entry was first registered with and *)
(* whether the user has switched publishing off. The program has no such   *)
(* fields; they identify an entry across recreation.                       *)
(***************************************************************************)
\* A recreation whose item loop ends at the first item that fails.
RECURSIVE RecreateItemsAbort(_, _, _)
RecreateItemsAbort(items, sv, id) ==
    IF items = <<>> \/ ~ItemCreatable(Head(items).node_id)
    THEN [items |-> <<>>, sv |-> sv]
    ELSE LET it == Head(items)
             rest == RecreateItemsAbort(Tail(items), SrvAddItem(sv, id), id)
             new == [handle |-> sv[id].nh, node_id |-> it.node_id,
                     sampling_interval |-> it.sampling_interval,
                     h_handle |-> it.h_handle]
         IN [items |-> <<new>> \o rest.items, sv |-> rest.sv]

\* lines 1566-1614: the items of one sub_info, in order; an item whose
\* creation raises is logged and skipped.
RECURSIVE RecreateItems(_, _, _)
RecreateItems(items, sv, id) ==
    IF items = <<>> THEN [items |-> <<>>, sv |-> sv]
    ELSE LET it == Head(items)
             ok == ItemCreatable(it.node_id)
             rest == RecreateItems(Tail(items), IF ok THEN SrvAddItem(sv, id) ELSE sv, id)
             new == [handle |-> sv[id].nh, node_id |-> it.node_id,
                     sampling_interval |-> it.sampling_interval,
                     h_handle |-> it.h_handle]
         IN [items |-> IF ok THEN <<new>> \o rest.items ELSE rest.items,
             sv |-> rest.sv]

\* lines 1540-1622: one new subscription per sub_info of the backup list, on
\* the new client. A creation that raises (up = FALSE: the link of the new
\* client is gone) drops the sub_info from the result.
RECURSIVE RecreateList(_, _, _, _, _)
RecreateList(c, list, sv, next, up) ==
    IF list = <<>> THEN [subs |-> <<>>, sv |-> sv, next |-> next]
    ELSE IF ~up THEN RecreateList(c, Tail(list), sv, next, up)
    ELSE LET si == Head(list)
             asked == validate_subscription_parameters(si.params)
             ri == RecreateItems(si.monitored_items,
                                 DictSet(sv, next, SrvNewSubRevised(c, asked)), next)
             rest == RecreateList(c, Tail(list), ri.sv, next + 1, up)
             info == [id |-> next,
                      subscription |-> [id |-> next, client |-> c],
                      params |-> si.params,
                      parameters |-> asked,
                      monitored_items |-> ri.items,
                      h_key |-> si.h_key, h_pubOff |-> si.h_pubOff]
         IN [subs |-> <<info>> \o rest.subs, sv |-> rest.sv, next |-> rest.next]

\* lines 1530-1531 and 1624-1630.
recreate_subscriptions(c, list, sv, next) ==
    IF c = NoClient \/ list = <<>>
    THEN [subs |-> list, sv |-> sv, next |-> next]
    ELSE RecreateList(c, list, sv, next, clients[c].conn = "connected")

(***************************************************************************)
(* opcua_app: the per-session subscription lists and the menu operations   *)
(* on them. Each operator returns the list the function returns and the    *)
(* server state it leaves.                                                 *)
(***************************************************************************)
\* The selection prompt of add_monitored_item (lines 950-966), modify_subscription
\* (1123-1139) and delete_subscription (1432-1448): the input is tried as a
\* list number first and as a subscription id only when out of range.
\* The result is a list position, 0 when nothing is selected.
Select(list, sel) ==
    IF sel \in 1..Len(list) THEN sel
    ELSE IF \E i \in 1..Len(list) : list[i].id = sel
         THEN CHOOSE i \in 1..Len(list) :
                  /\ list[i].id = sel
                  /\ \A j \in 1..(i - 1) : list[j].id # sel
         ELSE 0

RegistryList == 
    IF current_session_id \in DOMAIN subscription_lists
    THEN subscription_lists[current_session_id] ELSE <<>>

\* create_subscription(client_connection, subscription_list), lines 819-856,
\* answering "n" to the item prompt.
create_subscription(c, list, sv, next) ==
    IF c # NoClient /\ clients[c].conn = "connected"
    THEN [subs |-> Append(list, [id |-> next,
                                 subscription |-> [id |-> next, client |-> c],
                                 params |-> DefaultParams,
                                 parameters |-> DefaultParams,
                                 monitored_items |-> <<>>,
                                 h_key |-> next, h_pubOff |-> FALSE]),
          sv |-> DictSet(sv, next, SrvNewSub(c)), next |-> next + 1]
    ELSE [subs |-> list, sv |-> sv, next |-> next]

\* modify_subscription, mod_type "4", lines 1234-1248.
set_publishing(list, sv, sel, mode) ==
    LET i == Select(list, sel) IN
    IF i = 0 THEN [subs |-> list, sv |-> sv]
    ELSE IF SetPublishingModeOk(sv, clients, list[i].subscription)
         THEN [subs |-> [list EXCEPT ![i].h_pubOff = ~mode],
               sv |-> SetPublishingModeSrv(sv, clients, list[i].subscription, mode)]
         ELSE [subs |-> list, sv |-> sv]

\* add_monitored_item from the selection prompt on, lines 938-1101: the item
\* dict is appended to the selected sub_info when subscribe_data_change
\* returned a handle.
add_item(list, sv, sel, n) ==
    LET i == Select(list, sel) IN
    IF i = 0 THEN [subs |-> list, sv |-> sv]
    ELSE IF SubLive(sv, clients, list[i].subscription) /\ ItemCreatable(n)
         THEN LET h == sv[list[i].id].nh IN
              [subs |-> [list EXCEPT ![i].monitored_items =
                            Append(@, [handle |-> h, node_id |-> n,
                                       sampling_interval |-> 100, h_handle |-> h])],
               sv |-> SrvAddItem(sv, list[i].id)]
         ELSE [subs |-> list, sv |-> sv]

\* delete_subscription(subscription_list), one selection, lines 1429-1461.
RemoveId(list, id) == SelectSeq(list, LAMBDA s : s.id # id)

delete_one(list, sv, sel) ==
    LET i == Select(list, sel) IN
    IF i = 0 THEN [subs |-> list, sv |-> sv]
    ELSE [subs |-> IF DeleteSubscriptionOk(sv, clients, list[i].subscription)
                   THEN RemoveId(list, list[i].id) ELSE list,
          sv |-> DeleteSubscriptionSrv(sv, clients, list[i].subscription)]

\* delete_subscription(subscription_list), selection 'all', lines 1423-1427;
\* also the loop of disconnect_from_server, lines 159-164.
RECURSIVE DeleteEach(_, _)
DeleteEach(list, sv) ==
    IF list = <<>> THEN sv
    ELSE DeleteEach(Tail(list), DeleteSubscriptionSrv(sv, clients, Head(list).subscription))

delete_all(list, sv) == [subs |-> <<>>, sv |-> DeleteEach(list, sv)]

(***************************************************************************)
(* opcua_app: connect_to_server, disconnect_from_server, session switch.   *)
(***************************************************************************)
\* connect_to_server, lines 84-144.
connect_to_server(name, url) ==
    /\ upc = "idle"
    /\ IF name \in DOMAIN sessions
       THEN /\ lastCall' = Call("connect_to_server", name, NoClient, "exists", FALSE)
            /\ UNCHANGED <<clients, ka, keep_alive_tasks, sessions,
                           current_session_id, subscription_lists>>
       ELSE /\ Len(clients) < MaxClients
            /\ clients' = CS_Clients(url)
            /\ ka' = CS_Ka(url)
            /\ keep_alive_tasks' = CS_Tasks(url)
            /\ lastCall' = NoCall
            /\ IF CreateSessionOk(url)
               THEN /\ sessions' = DictSet(sessions, name, NewClient)
                    /\ current_session_id' = name
                    /\ subscription_lists' = DictSet(subscription_lists, name, <<>>)
               ELSE UNCHANGED <<sessions, current_session_id, subscription_lists>>
    /\ UNCHANGED <<srv, envVars, libVars, upc, uctx, userClosed>>

\* disconnect_from_server, lines 146-186: the subscriptions of the current
\* session are deleted, the session is closed through the session manager,
\* its list is dropped and another session, if any, becomes current. An
\* exception of the close ends the function before the list is dropped.
disconnect_from_server ==
    /\ upc = "idle"
    /\ current_session_id # NoSession
    /\ LET sv == DeleteEach(RegistryList, srv) IN
       IF current_session_id \in DOMAIN sessions
       THEN LET c == sessions[current_session_id] IN
            \E out \in DisconnectOutcomes(c) :
            /\ clients' = Disconnected(clients, c)
            /\ srv' = SrvDropClient(sv, c)
            /\ userClosed' = IF out = "ok" THEN userClosed \cup {c} ELSE userClosed
            /\ IF out = "ok"
               THEN /\ sessions' = DictDel(sessions, current_session_id)
                    /\ subscription_lists' = DictDel(subscription_lists, current_session_id)
                    /\ current_session_id' =
                          IF DOMAIN sessions' = {} THEN NoSession
                          ELSE CHOOSE n \in DOMAIN sessions' : TRUE
               ELSE UNCHANGED <<sessions, subscription_lists, current_session_id>>
       ELSE /\ srv' = sv
            /\ subscription_lists' = DictDel(subscription_lists, current_session_id)
            /\ current_session_id' =
                  IF DOMAIN sessions = {} THEN NoSession
                  ELSE CHOOSE n \in DOMAIN sessions : TRUE
            /\ UNCHANGED <<clients, sessions, userClosed>>
    /\ lastCall' = NoCall
    /\ UNCHANGED <<ka, keep_alive_tasks, envVars, libVars, upc, uctx>>

\* list_and_switch_sessions, lines 188-228.
list_and_switch_sessions(name) ==
    /\ upc = "idle"
    /\ name \in DOMAIN sessions
    /\ name # current_session_id
    /\ current_session_id' = name
    /\ lastCall' = NoCall
    /\ UNCHANGED <<connVars, sessions, envVars, libVars, subscription_lists, upc, uctx, userClosed>>

(***************************************************************************)
(* opcua_app.main: a menu choice that starts with check_and_reconnect.     *)
(* Choices: "read" (4-9), "create" (10), "set_pub", "add_item" (11),       *)
(* "delete", "delete_all" (12).                                            *)
(***************************************************************************)
Idle == [choice |-> "none", client |-> NoClient, reconnected |-> FALSE]

\* check_and_reconnect, lines 242-258: the connection check of the current
\* session's client.
Menu(choice) ==
    /\ upc = "idle"
    /\ current_session_id # NoSession
    /\ current_session_id \in DOMAIN sessions
    /\ choice = "create" => Len(RegistryList) < MaxSubs
    /\ LET c == sessions[current_session_id] IN
       /\ uctx' = [choice |-> choice, client |-> c, reconnected |-> FALSE]
       /\ upc' = IF clients[c].conn = "connected" THEN "body" ELSE "cr_disconnect"
    /\ lastCall' = NoCall
    /\ UNCHANGED <<connVars, sessions, envVars, libVars, current_session_id,
                   subscription_lists, userClosed>>

\* check_and_reconnect, lines 264-268: the old client is disconnected, errors
\* ignored.
CR_Disconnect ==
    /\ upc = "cr_disconnect"
    /\ clients' = Disconnected(clients, uctx.client)
    /\ srv' = SrvDropClient(srv, uctx.client)
    /\ upc' = "cr_create"
    /\ lastCall' = NoCall
    /\ UNCHANGED <<ka, keep_alive_tasks, sessions, envVars, libVars, current_session_id,
                   subscription_lists, uctx, userClosed>>

\* check_and_reconnect, lines 270-284: a new session to DEFAULT_SERVER_URL
\* replaces the entry of the current session.
CR_Create ==
    /\ upc = "cr_create"
    /\ Len(clients) < MaxClients
    /\ clients' = CS_Clients(DEFAULT_SERVER_URL)
    /\ ka' = CS_Ka(DEFAULT_SERVER_URL)
    /\ keep_alive_tasks' = CS_Tasks(DEFAULT_SERVER_URL)
    /\ IF CreateSessionOk(DEFAULT_SERVER_URL)
       THEN /\ sessions' = DictSet(sessions, current_session_id, NewClient)
            /\ upc' = "body"
            /\ uctx' = [uctx EXCEPT !.client = NewClient, !.reconnected = TRUE]
       ELSE /\ upc' = "idle"
            /\ uctx' = Idle
            /\ UNCHANGED sessions
    /\ lastCall' = NoCall
    /\ UNCHANGED <<srv, envVars, libVars, current_session_id, subscription_lists, userClosed>>

\* main, lines 2168-2171, 2240-2243, 2254-2257: after a reconnect the list of
\* the current session is replaced by the recreated one.
Recovered(list) ==
    IF uctx.reconnected /\ current_session_id \in DOMAIN subscription_lists
    THEN recreate_subscriptions(uctx.client, list, srv, nextSubId)
    ELSE [subs |-> list, sv |-> srv, next |-> nextSubId]

\* The end of a menu choice: the registry, the server and the user task.
Finish(subs, sv, next) ==
    /\ next <= MaxSubId + 1
    /\ subscription_lists' = DictSet(subscription_lists, current_session_id, subs)
    /\ srv' = sv
    /\ nextSubId' = next
    /\ upc' = "idle"
    /\ uctx' = Idle
    /\ lastCall' = NoCall
    /\ UNCHANGED <<clients, ka, keep_alive_tasks, sessions, srvUp, srvNodes, libVars,
                   current_session_id, userClosed>>

\* choices 4-9, lines 2162-2226: the operation, then the recreation.
Body_Read ==
    /\ upc = "body" /\ uctx.choice = "read"
    /\ current_session_id \in DOMAIN subscription_lists
    /\ LET r == Recovered(RegistryList) IN Finish(r.subs, r.sv, r.next)

\* choice 10, lines 2228-2235: no recreation.
Body_Create ==
    /\ upc = "body" /\ uctx.choice = "create"
    /\ LET r == create_subscription(uctx.client, RegistryList, srv, nextSubId)
       IN Finish(r.subs, r.sv, r.next)

\* choice 11, mod_type "4", lines 2237-2247 and 1234-1248.
Body_SetPublishing(sel, mode) ==
    /\ upc = "body" /\ uctx.choice = "set_pub"
    /\ current_session_id \in DOMAIN subscription_lists
    /\ LET r == Recovered(RegistryList)
           m == set_publishing(r.subs, r.sv, sel, mode)
       IN Finish(m.subs, m.sv, r.next)

\* choice 12, lines 2251-2261.
Body_Delete(sel) ==
    /\ upc = "body" /\ uctx.choice = "delete"
    /\ current_session_id \in DOMAIN subscription_lists
    /\ LET r == Recovered(RegistryList)
           d == delete_one(r.subs, r.sv, sel)
       IN Finish(d.subs, d.sv, r.next)

Body_DeleteAll ==
    /\ upc = "body" /\ uctx.choice = "delete_all"
    /\ current_session_id \in DOMAIN subscription_lists
    /\ LET r == Recovered(RegistryList)
           d == delete_all(r.subs, r.sv)
       IN Finish(d.subs, d.sv, r.next)

\* The model lets the user add an item only where the bound leaves room.
ItemRoom(list, sel) ==
    IF Select(list, sel) = 0 THEN TRUE
    ELSE Len(list[Select(list, sel)].monitored_items) < MaxItems

\* choice 11, mod_type "2", lines 2237-2247, 1197-1199 and 858-885: after the
\* recreation add_monitored_item checks the connection itself and either adds
\* the item or starts its own reconnect.
Body_AddItem(sel, n) ==
    /\ upc = "body" /\ uctx.choice = "add_item"
    /\ current_session_id \in DOMAIN subscription_lists
    /\ LET r == Recovered(RegistryList)
           a == add_item(r.subs, r.sv, sel, n)
       IN /\ ItemRoom(r.subs, sel)
          /\ IF r.subs = <<>> \/ clients[uctx.client].conn = "connected"
             THEN Finish(a.subs, a.sv, r.next)
             ELSE /\ r.next <= MaxSubId + 1
                  /\ subscription_lists' = DictSet(subscription_lists, current_session_id, r.subs)
                  /\ srv' = r.sv
                  /\ nextSubId' = r.next
                  /\ upc' = "ai_disconnect"
                  /\ uctx' = [uctx EXCEPT !.reconnected = FALSE]
                  /\ lastCall' = NoCall
                  /\ UNCHANGED <<clients, ka, keep_alive_tasks, sessions, srvUp, srvNodes, libVars,
                                 current_session_id, userClosed>>

\* add_monitored_item, lines 899-903.
AI_Disconnect ==
    /\ upc = "ai_disconnect"
    /\ clients' = Disconnected(clients, uctx.client)
    /\ srv' = SrvDropClient(srv, uctx.client)
    /\ upc' = "ai_create"
    /\ lastCall' = NoCall
    /\ UNCHANGED <<ka, keep_alive_tasks, sessions, envVars, libVars, current_session_id,
                   subscription_lists, uctx, userClosed>>

\* add_monitored_item, lines 905-918 and 930-933.
AI_Create ==
    /\ upc = "ai_create"
    /\ Len(clients) < MaxClients
    /\ clients' = CS_Clients(DEFAULT_SERVER_URL)
    /\ ka' = CS_Ka(DEFAULT_SERVER_URL)
    /\ keep_alive_tasks' = CS_Tasks(DEFAULT_SERVER_URL)
    /\ IF CreateSessionOk(DEFAULT_SERVER_URL)
       THEN /\ sessions' = DictSet(sessions, current_session_id, NewClient)
            /\ upc' = "ai_recreate"
            /\ uctx' = [uctx EXCEPT !.client = NewClient, !.reconnected = TRUE]
       ELSE /\ upc' = "idle"
            /\ uctx' = Idle
            /\ UNCHANGED sessions
    /\ lastCall' = NoCall
    /\ UNCHANGED <<srv, envVars, libVars, current_session_id, subscription_lists, userClosed>>

\* add_monitored_item, lines 922-928 and 938-1101: the recreated list and the
\* added item live in the local variable subscription_list; the callers
\* (lines 850, 1199) drop the returned list, so the registry keeps the old one.
AI_Recreate(sel, n) ==
    /\ upc = "ai_recreate"
    /\ LET r == recreate_subscriptions(uctx.client, RegistryList, srv, nextSubId)
           a == add_item(r.subs, r.sv, sel, n)
       IN /\ ItemRoom(r.subs, sel)
          /\ r.next <= MaxSubId + 1
          /\ srv' = a.sv
          /\ nextSubId' = r.next
    /\ upc' = "idle"
    /\ uctx' = Idle
    /\ lastCall' = NoCall
    /\ UNCHANGED <<clients, ka, keep_alive_tasks, sessions, srvUp, srvNodes, libVars,
                   current_session_id, subscription_lists, userClosed>>

(***************************************************************************)
(* Environment: a node is removed from the server's address space.         *)
(***************************************************************************)
NodeDelete(n) ==
    /\ n \in srvNodes
    /\ srvNodes' = srvNodes \ {n}
    /\ lastCall' = NoCall
    /\ UNCHANGED <<connVars, sessions, srvUp, nextSubId, libVars, appVars, userClosed>>

Recover ==
    \/ CR_Disconnect
    \/ CR_Create
    \/ AI_Disconnect
    \/ AI_Create
    \/ \E sel \in 1..MaxSubId, n \in NodeIds : AI_Recreate(sel, n)

(***************************************************************************)
(* Spec: one session of the application, its subscriptions and monitored   *)
(* items, link failures, the keep-alive worker and the two recovery paths  *)
(* of the menu.                                                            *)
(***************************************************************************)
Next ==
    \/ \E url \in Urls : connect_to_server("s1", url)
    \/ \E choice \in {"read", "create", "add_item"} : Menu(choice)
    \/ Recover
    \/ Body_Read
    \/ Body_Create
    \/ \E sel \in 1..MaxSubId, n \in NodeIds : Body_AddItem(sel, n)
    \/ \E c \in 1..MaxClients : KeepAliveUp(c)
    \/ \E c \in 1..MaxClients : LinkFail(c)
    \/ \E n \in NodeIds : NodeDelete(n)

Spec == Init /\ [][Next]_vars

(***************************************************************************)
(* SpecPub: one session whose subscriptions have their publishing mode     *)
(* switched by the user, with link failures and the recovery of the menu.  *)
(***************************************************************************)
NextPub ==
    \/ \E url \in Urls : connect_to_server("s1", url)
    \/ \E choice \in {"read", "create", "set_pub"} : Menu(choice)
    \/ CR_Disconnect
    \/ CR_Create
    \/ Body_Read
    \/ Body_Create
    \/ \E sel \in 1..MaxSubId, mode \in BOOLEAN : Body_SetPublishing(sel, mode)
    \/ \E c \in 1..MaxClients : KeepAliveUp(c)
    \/ \E c \in 1..MaxClients : LinkFail(c)

SpecPub == Init /\ [][NextPub]_vars

(***************************************************************************)
(* SpecApp: the sessions of the application (connect, disconnect, switch)  *)
(* with creation and deletion of subscriptions, link failures and the      *)
(* recovery of the menu.                                                   *)
(***************************************************************************)
NextApp ==
    \/ \E name \in Names, url \in Urls : connect_to_server(name, url)
    \/ disconnect_from_server
    \/ \E name \in Names : list_and_switch_sessions(name)
    \/ \E choice \in {"create", "delete", "delete_all"} : Menu(choice)
    \/ CR_Disconnect
    \/ CR_Create
    \/ Body_Create
    \/ \E sel \in 1..MaxSubId : Body_Delete(sel)
    \/ Body_DeleteAll
    \/ \E c \in 1..MaxClients : KeepAliveUp(c)
    \/ \E c \in 1..MaxClients : LinkFail(c)

SpecApp == Init /\ [][NextApp]_vars

(***************************************************************************)
(* The library used directly: connection.create_session / close_session,   *)
(* the Connection class and the OpcUaClient class.                         *)
(***************************************************************************)
\* A completed call on a Subscription object.
SubCall(op, cl, sub, res) ==
    [op |-> op, name |-> "none", cl |-> cl, sub |-> sub, res |-> res, disc |-> FALSE]

\* connection.create_session(server_url), lines 202-262.
create_session(url) ==
    /\ upc = "idle"
    /\ Len(clients) < MaxClients
    /\ clients' = CS_Clients(url)
    /\ ka' = CS_Ka(url)
    /\ keep_alive_tasks' = CS_Tasks(url)
    /\ lastCall' = Call("create_session", "none", NewClient,
                        IF CreateSessionOk(url) THEN "ok" ELSE "raise", FALSE)
    /\ UNCHANGED <<srv, sessions, envVars, libVars, appVars, userClosed>>

\* connection.close_session(client), lines 285-306: the stored keep-alive
\* tasks are cancelled, then client.disconnect() is called.
close_session(c) ==
    /\ upc = "idle"
    /\ c \in ClientIds
    /\ \E out \in DisconnectOutcomes(c) :
          /\ lastCall' = Call("close_session", "none", c, out, TRUE)
          /\ userClosed' = IF out = "ok" THEN userClosed \cup {c} ELSE userClosed
    /\ ka' = CloseS_Ka
    /\ keep_alive_tasks' = CloseS_Tasks
    /\ clients' = Disconnected(clients, c)
    /\ srv' = SrvDropClient(srv, c)
    /\ UNCHANGED <<sessions, envVars, libVars, appVars>>

\* Connection.connect, lines 114-137: a new Client without keep-alive task.
Connection_connect(url) ==
    /\ upc = "idle"
    /\ Len(clients) < MaxClients
    /\ clients' = CS_Clients(url)
    /\ ka' = Append(ka, KaIdle)
    /\ cobj' = [client |-> NewClient, is_connected |-> CreateSessionOk(url)]
    /\ lastCall' = Call("connection_connect", "none", NewClient,
                        IF CreateSessionOk(url) THEN "ok" ELSE "raise", FALSE)
    /\ UNCHANGED <<keep_alive_tasks, srv, sessions, envVars, ocl, subObjs, handler, fm, itemData, appVars, userClosed>>

\* Connection.disconnect, lines 139-151: guarded by client and is_connected;
\* an exception of client.disconnect() is logged.
Connection_disconnect ==
    /\ upc = "idle"
    /\ IF cobj.client # NoClient /\ cobj.is_connected
       THEN /\ clients' = Disconnected(clients, cobj.client)
            /\ srv' = SrvDropClient(srv, cobj.client)
            /\ cobj' = [client |-> NoClient, is_connected |-> FALSE]
            /\ userClosed' = userClosed \cup {cobj.client}
            /\ lastCall' = Call("connection_disconnect", "none", cobj.client, "ok", TRUE)
       ELSE /\ lastCall' = Call("connection_disconnect", "none", cobj.client, "ok", FALSE)
            /\ UNCHANGED <<clients, srv, cobj, userClosed>>
    /\ UNCHANGED <<ka, keep_alive_tasks, sessions, envVars, ocl, subObjs, handler, fm, itemData, appVars>>

\* OpcUaClient.connect, lines 36-44.
OpcUaClient_connect(url) ==
    /\ upc = "idle"
    /\ Len(clients) < MaxClients
    /\ clients' = CS_Clients(url)
    /\ ka' = CS_Ka(url)
    /\ keep_alive_tasks' = CS_Tasks(url)
    /\ ocl' = IF CreateSessionOk(url) THEN [ocl EXCEPT !.client = NewClient] ELSE ocl
    /\ lastCall' = Call("oc_connect", "none", NewClient,
                        IF CreateSessionOk(url) THEN "ok" ELSE "raise", FALSE)
    /\ UNCHANGED <<srv, sessions, envVars, cobj, subObjs, handler, fm, itemData, appVars, userClosed>>

\* OpcUaClient.disconnect, lines 46-61: guarded by self.client; every listed
\* subscription gets a delete attempt, then connection.close_session; the
\* list self.subscriptions is left as it is.
RECURSIVE DeleteEachSub(_, _)
DeleteEachSub(subs, sv) ==
    IF subs = <<>> THEN sv
    ELSE DeleteEachSub(Tail(subs), DeleteSubscriptionSrv(sv, clients, Head(subs)))

OpcUaClient_disconnect ==
    /\ upc = "idle"
    /\ IF ocl.client # NoClient
       THEN /\ \E out \in DisconnectOutcomes(ocl.client) :
                 /\ lastCall' = Call("oc_disconnect", "none", ocl.client, out, TRUE)
                 /\ userClosed' = IF out = "ok" THEN userClosed \cup {ocl.client}
                                  ELSE userClosed
                 /\ ocl' = IF out = "ok" THEN [ocl EXCEPT !.client = NoClient] ELSE ocl
            /\ ka' = CloseS_Ka
            /\ keep_alive_tasks' = CloseS_Tasks
            /\ clients' = Disconnected(clients, ocl.client)
            /\ srv' = SrvDropClient(DeleteEachSub(ocl.subscriptions, srv), ocl.client)
       ELSE /\ lastCall' = Call("oc_disconnect", "none", NoClient, "ok", FALSE)
            /\ UNCHANGED <<clients, ka, keep_alive_tasks, srv, ocl, userClosed>>
    /\ UNCHANGED <<sessions, envVars, cobj, subObjs, handler, fm, itemData, appVars>>

\* OpcUaClient._check_connection, lines 248-256.
CheckConnectionOk == ocl.client # NoClient

\* OpcUaClient.read_node(node_id), lines 85-97 (browse_node, read_array_node,
\* write_node, call_method and call_method_with_params have the same shape):
\* the check, then the request on self.client, whose exception propagates.
OpcUaClient_read_node ==
    /\ upc = "idle"
    /\ lastCall' = IF ~CheckConnectionOk
                   THEN SubCall("oc_read_node", NoClient, 0, "RuntimeError")
                   ELSE IF clients[ocl.client].conn # "connected"
                   THEN SubCall("oc_read_node", ocl.client, 0, "raise")
                   ELSE SubCall("oc_read_node", ocl.client, 0, "ok")
    /\ UNCHANGED <<connVars, sessions, envVars, libVars, appVars, userClosed>>

\* OpcUaClient.create_subscription(period), lines 163-189, without node_id.
OpcUaClient_create_subscription ==
    /\ upc = "idle"
    /\ nextSubId <= MaxSubId
    /\ Len(ocl.subscriptions) < MaxSubs
    /\ IF ~CheckConnectionOk
       THEN /\ lastCall' = SubCall("oc_create_subscription", NoClient, 0, "RuntimeError")
            /\ UNCHANGED <<srv, nextSubId, ocl, subObjs, handler, fm, itemData>>
       ELSE IF clients[ocl.client].conn # "connected"
       THEN /\ lastCall' = SubCall("oc_create_subscription", ocl.client, 0, "raise")
            /\ UNCHANGED <<srv, nextSubId, ocl, subObjs, handler, fm, itemData>>
       ELSE LET sub == [id |-> nextSubId, client |-> ocl.client] IN
            /\ srv' = DictSet(srv, nextSubId, SrvNewSub(ocl.client))
            /\ nextSubId' = nextSubId + 1
            /\ ocl' = [ocl EXCEPT !.subscriptions = Append(@, sub)]
            /\ subObjs' = subObjs \cup {sub}
            /\ itemData' = DictSet(itemData, sub.id, EmptyDict)
            /\ UNCHANGED <<handler, fm>>
            /\ lastCall' = SubCall("oc_create_subscription", ocl.client, sub.id, "ok")
    /\ UNCHANGED <<clients, ka, keep_alive_tasks, sessions, srvUp, srvNodes, cobj,
                   appVars, userClosed>>

\* OpcUaClient.delete_subscription(sub), lines 236-246: the result of
\* subscription.delete_subscription is not looked at; the call returns None.
OpcUaClient_delete_subscription(sub) ==
    /\ upc = "idle"
    /\ sub \in subObjs
    /\ IF ~CheckConnectionOk
       THEN /\ lastCall' = SubCall("oc_delete_subscription", NoClient, sub.id, "RuntimeError")
            /\ UNCHANGED <<srv, ocl>>
       ELSE /\ srv' = DeleteSubscriptionSrv(srv, clients, sub)
            /\ ocl' = [ocl EXCEPT !.subscriptions = SelectSeq(@, LAMBDA x : x # sub)]
            /\ lastCall' = SubCall("oc_delete_subscription", ocl.client, sub.id, "ok")
    /\ UNCHANGED <<clients, ka, keep_alive_tasks, sessions, envVars, cobj, subObjs, handler, fm, itemData,
                   appVars, userClosed>>

(***************************************************************************)
(* SpecConn: the library used directly (session manager, sessions,         *)
(* Connection and OpcUaClient objects), with the keep-alive tasks.         *)
(***************************************************************************)
NextConn ==
    \/ \E name \in Names, url \in Urls : MSM_CreateSession(name, url)
    \/ \E name \in Names : MSM_CloseSession(name)
    \/ \E url \in Urls : create_session(url)
    \/ \E c \in 1..MaxClients : close_session(c)
    \/ \E url \in Urls : Connection_connect(url)
    \/ Connection_disconnect
    \/ \E url \in Urls : OpcUaClient_connect(url)
    \/ OpcUaClient_disconnect
    \/ OpcUaClient_create_subscription
    \/ \E sub \in subObjs : OpcUaClient_delete_subscription(sub)
    \/ \E c \in 1..MaxClients : KeepAliveUp(c)

SpecConn == Init /\ [][NextConn]_vars

(***************************************************************************)
(* SpecKA: sessions of the session manager and of connection.create_session*)
(* with their keep-alive workers, link failures and server outages.        *)
(***************************************************************************)
NextKA ==
    \/ \E url \in Urls : MSM_CreateSession("s1", url)
    \/ MSM_CloseSession("s1")
    \/ \E url \in Urls : create_session(url)
    \/ \E c \in 1..MaxClients : close_session(c)
    \/ \E c \in 1..MaxClients : KeepAlive(c)
    \/ \E c \in 1..MaxClients : LinkFail(c)
    \/ \E u \in Urls : ServerDown(u)
    \/ \E u \in Urls : ServerUp(u)

SpecKA == Init /\ [][NextKA]_vars

(***************************************************************************)
(* Claims checked under Spec.                                              *)
(***************************************************************************)
\* C2: whenever the keep-alive worker has re-established the connection of a
\* session's client, every subscription the registry lists for that session
\* is live on the re-established session.
C2_KeepAliveRecreatesSubscriptions ==
    [][\A c \in ClientIds :
          (ka[c].pc = "connect" /\ ka'[c].pc = "tick" /\ clients'[c].conn = "connected")
          => \A name \in DOMAIN subscription_lists' :
                (name \in DOMAIN sessions' /\ sessions'[name] = c)
                => \A i \in 1..Len(subscription_lists'[name]) :
                      SubLive(srv', clients', subscription_lists'[name][i].subscription)
      ]_vars

\* C3: every registered subscription has the registry key it was first
\* registered with, and every monitored item the handle it was first given.
C3_KeysAndHandlesStable ==
    \A name \in DOMAIN subscription_lists :
       \A i \in 1..Len(subscription_lists[name]) :
          LET si == subscription_lists[name][i] IN
          /\ si.id = si.h_key
          /\ \A j \in 1..Len(si.monitored_items) :
                si.monitored_items[j].handle = si.monitored_items[j].h_handle

\* C4: the keep-alive worker's recovery (disconnect, connect) of a client and
\* a recovery of the same client's session by the user task (check_and_reconnect
\* or add_monitored_item) are never in progress at the same time.
C4_OneRecoveryPerSession ==
    \A c \in ClientIds :
       ~ /\ ka[c].st = "running"
         /\ ka[c].pc \in {"disconnect", "connect"}
         /\ upc \in {"cr_disconnect", "cr_create", "ai_disconnect", "ai_create"}
         /\ uctx.client = c

\* C5: a recovery by check_and_reconnect or add_monitored_item connects the
\* session to the url its client was connected to before the recovery.
C5_RecoverySameUrl ==
    [][(/\ upc \in {"cr_create", "ai_create"}
        /\ upc' \in {"body", "ai_recreate"})
       => clients'[sessions'[current_session_id]].url
             = clients[sessions[current_session_id]].url
      ]_vars

C7_PublishingModeRestored ==
    \A name \in DOMAIN subscription_lists :
       \A i \in 1..Len(subscription_lists[name]) :
          LET si == subscription_lists[name][i] IN
          (si.h_pubOff /\ SubLive(srv, clients, si.subscription))
          => ~srv[si.id].pub

(***************************************************************************)
(* Claims checked under SpecKA.                                            *)
(***************************************************************************)
\* C1: once the close of a client through the API has completed, its
\* keep-alive worker takes no further step (no read, no disconnect, no
\* connect) and the client is not connected again.
C1_KeepAliveExitedAfterClose ==
    [][\A c \in userClosed :
          /\ ka'[c].pc = ka[c].pc
          /\ ka'[c].attempts = ka[c].attempts
          /\ clients'[c].conn = "connected" => clients[c].conn = "connected"
      ]_vars

(***************************************************************************)
(* Claims checked under SpecConn.                                          *)
(***************************************************************************)
\* C8: MultiSessionManager.create_session with a name that is present raises
\* ValueError, constructs and connects no client, starts and cancels no
\* keep-alive task and leaves the sessions dict as it is.
C8_NameInUseFails ==
    [][(/\ lastCall'.op = "msm_create_session"
        /\ lastCall'.name \in DOMAIN sessions)
       => /\ lastCall'.res = "ValueError"
          /\ UNCHANGED <<clients, ka, keep_alive_tasks, sessions, srv>>
      ]_vars

\* C8 witness: create_session has just been refused for the name of a
\* session that is connected.
C8_Witness ==
    /\ lastCall.op = "msm_create_session"
    /\ lastCall.res = "ValueError"
    /\ lastCall.name \in DOMAIN sessions
    /\ clients[sessions[lastCall.name]].conn = "connected"

\* C9: a close operation issued right after the same close operation on the
\* same target has returned normally (connection.close_session on the same
\* client, MultiSessionManager.close_session on the same name,
\* Connection.disconnect, OpcUaClient.disconnect) returns normally, does not
\* call Client.disconnect() and changes no state of the client side or the
\* server.
C9_SecondCloseNoOp ==
    [][(/\ lastCall.res = "ok"
        /\ lastCall'.op = lastCall.op
        /\ \/ lastCall.op = "close_session" /\ lastCall'.cl = lastCall.cl
           \/ lastCall.op = "msm_close_session" /\ lastCall'.name = lastCall.name
           \/ lastCall.op = "connection_disconnect"
           \/ lastCall.op = "oc_disconnect")
       => /\ lastCall'.res = "ok"
          /\ ~lastCall'.disc
          /\ UNCHANGED <<clients, ka, keep_alive_tasks, sessions, srv, ocl, cobj>>
      ]_vars

\* C10: OpcUaClient.delete_subscription for a subscription that an earlier
\* delete has removed from the client's list does not return normally and
\* leaves the list as it is.
C10_SecondDeleteFails ==
    [][(/\ lastCall'.op = "oc_delete_subscription"
        /\ \A i \in 1..Len(ocl.subscriptions) : ocl.subscriptions[i].id # lastCall'.sub)
       => /\ lastCall'.res # "ok"
          /\ ocl' = ocl
      ]_vars


\* C11: when OpcUaClient.disconnect has closed the session of a client and
\* returned, the client's list self.subscriptions holds no subscription that
\* was created on the closed session.
C11_ClosedSessionOwnsNoSubscription ==
    [][(/\ lastCall'.op = "oc_disconnect"
        /\ lastCall'.res = "ok"
        /\ lastCall'.disc)
       => \A i \in 1..Len(ocl'.subscriptions) :
             ocl'.subscriptions[i].client # lastCall'.cl
      ]_vars


(***************************************************************************)
(* connection.close_session and OpcUaClient.disconnect, one action per     *)
(* await: the order of their steps.  While the user task is inside one of  *)
(* them, uctx holds its locals: the client, the position i in the loop over *)
(* self.subscriptions and, as history, the results tried of the delete     *)
(* attempts made so far.                                                   *)
(***************************************************************************)
CloseCtx(c) ==
    [choice |-> "close", client |-> c, reconnected |-> FALSE, i |-> 1, tried |-> <<>>]

\* connection.close_session(client), lines 292-302: the stored keep-alive
\* tasks are cancelled and awaited.
CS_Cancel(c) ==
    /\ upc = "idle"
    /\ c \in ClientIds
    /\ ka' = CloseS_Ka
    /\ keep_alive_tasks' = CloseS_Tasks
    /\ upc' = "cs_disconnect"
    /\ uctx' = CloseCtx(c)
    /\ lastCall' = NoCall
    /\ UNCHANGED <<clients, srv, sessions, envVars, libVars, current_session_id,
                   subscription_lists, userClosed>>

\* connection.close_session(client), line 305: client.disconnect().
CS_Disconnect ==
    /\ upc = "cs_disconnect"
    /\ \E out \in DisconnectOutcomes(uctx.client) :
          /\ lastCall' = Call("close_session", "none", uctx.client, out, TRUE)
          /\ userClosed' = IF out = "ok" THEN userClosed \cup {uctx.client} ELSE userClosed
    /\ clients' = Disconnected(clients, uctx.client)
    /\ srv' = SrvDropClient(srv, uctx.client)
    /\ upc' = "idle"
    /\ uctx' = Idle
    /\ UNCHANGED <<ka, keep_alive_tasks, sessions, envVars, libVars, current_session_id,
                   subscription_lists>>

\* OpcUaClient.disconnect, line 50: the guard; without a client the call
\* returns at once.
OD_Start ==
    /\ upc = "idle"
    /\ IF ocl.client # NoClient
       THEN /\ upc' = IF ocl.subscriptions = <<>> THEN "od_cancel" ELSE "od_delete"
            /\ uctx' = CloseCtx(ocl.client)
            /\ lastCall' = NoCall
       ELSE /\ lastCall' = Call("oc_disconnect", "none", NoClient, "ok", FALSE)
            /\ UNCHANGED <<upc, uctx>>
    /\ UNCHANGED <<connVars, sessions, envVars, libVars, current_session_id,
                   subscription_lists, userClosed>>

\* The position after the delete attempt on entry i of n entries, lines
\* 52-56: the result of the attempt is not looked at.
OD_AfterDelete(ok, i, n) == IF i < n THEN "od_delete" ELSE "od_cancel"

\* OpcUaClient.disconnect, lines 52-56: one delete attempt of the loop.
OD_Delete ==
    /\ upc = "od_delete"
    /\ LET sub == ocl.subscriptions[uctx.i]
           ok == DeleteSubscriptionOk(srv, clients, sub)
       IN /\ srv' = DeleteSubscriptionSrv(srv, clients, sub)
          /\ uctx' = [uctx EXCEPT !.i = @ + 1, !.tried = Append(@, ok)]
          /\ upc' = OD_AfterDelete(ok, uctx.i, Len(ocl.subscriptions))
    /\ lastCall' = NoCall
    /\ UNCHANGED <<clients, ka, keep_alive_tasks, sessions, envVars, libVars,
                   current_session_id, subscription_lists, userClosed>>

\* OpcUaClient.disconnect, line 59, inside connection.close_session, lines
\* 292-302: the keep-alive tasks are cancelled.
OD_Cancel ==
    /\ upc = "od_cancel"
    /\ ka' = CloseS_Ka
    /\ keep_alive_tasks' = CloseS_Tasks
    /\ upc' = "od_disconnect"
    /\ lastCall' = NoCall
    /\ UNCHANGED <<clients, srv, sessions, envVars, libVars, current_session_id,
                   subscription_lists, uctx, userClosed>>

\* OpcUaClient.disconnect, lines 59-61: client.disconnect() inside
\* connection.close_session; self.client is reset when it has returned.
OD_Disconnect ==
    /\ upc = "od_disconnect"
    /\ \E out \in DisconnectOutcomes(uctx.client) :
          /\ lastCall' = Call("oc_disconnect", "none", uctx.client, out, TRUE)
          /\ userClosed' = IF out = "ok" THEN userClosed \cup {uctx.client} ELSE userClosed
          /\ ocl' = IF out = "ok" THEN [ocl EXCEPT !.client = NoClient] ELSE ocl
    /\ clients' = Disconnected(clients, uctx.client)
    /\ srv' = SrvDropClient(srv, uctx.client)
    /\ upc' = "idle"
    /\ uctx' = Idle
    /\ UNCHANGED <<ka, keep_alive_tasks, sessions, envVars, cobj, subObjs, handler, fm, itemData,
                   current_session_id, subscription_lists>>

(***************************************************************************)
(* SpecClose: sessions of connection.create_session and of an OpcUaClient  *)
(* with its subscriptions, closed step by step, with the keep-alive tasks  *)
(* and link failures.                                                      *)
(***************************************************************************)
NextClose ==
    \/ \E url \in Urls : create_session(url)
    \/ \E c \in 1..MaxClients : CS_Cancel(c)
    \/ CS_Disconnect
    \/ \E url \in Urls : OpcUaClient_connect(url)
    \/ OpcUaClient_create_subscription
    \/ OpcUaClient_read_node
    \/ OD_Start
    \/ OD_Delete
    \/ OD_Cancel
    \/ OD_Disconnect
    \/ \E c \in 1..MaxClients : KeepAliveUp(c)
    \/ \E c \in 1..MaxClients : LinkFail(c)

SpecClose == Init /\ [][NextClose]_vars

NextBackoff ==
    \/ \E url \in Urls : create_session(url)
    \/ \E c \in 1..MaxClients : close_session(c)
    \/ \E c \in 1..MaxClients : KeepAlive(c)
    \/ \E c \in 1..MaxClients : KA_ConnectUnverified(c)
    \/ \E c \in 1..MaxClients : LinkFail(c)
    \/ \E u \in Urls : ServerDown(u)
    \/ \E u \in Urls : ServerUp(u)

SpecBackoff == Init /\ [][NextBackoff]_vars

(***************************************************************************)
(* Claims checked under SpecBackoff: the counter of the keep-alive worker. *)
(***************************************************************************)
\* C13: a failed read of the keep-alive worker adds one to its counter and,
\* while the counter is at most max_reconnect_attempts, starts one recovery
\* (disconnect, connect); with the counter above it the worker pauses
\* instead, and the pause sets the counter to 0.  A recovery is in progress
\* only with a counter of 1..5, the pause only with a counter of 6, and the
\* counter is never above 6.
C13_KeepAliveBackoff ==
    /\ [](\A c \in ClientIds :
            /\ ka[c].attempts <= 6
            /\ ka[c].pc \in {"disconnect", "connect"} => ka[c].attempts \in 1..5
            /\ ka[c].pc = "backoff" => ka[c].attempts = 6)
    /\ [][\A c \in ClientIds :
            /\ (KA_Tick(c) /\ clients[c].conn # "connected")
               => /\ ka'[c].attempts = ka[c].attempts + 1
                  /\ ka'[c].pc = IF ka[c].attempts < 5 THEN "disconnect" ELSE "backoff"
            /\ (ka[c].pc = "backoff" /\ ka'[c] # ka[c] /\ ka'[c].st = "running")
               => /\ ka'[c].attempts = 0
                  /\ ka'[c].pc = "tick"
         ]_vars

\* C13 witness: after five failed recoveries and a sixth failed read a
\* worker pauses.
C13_Witness ==
    \E c \in ClientIds :
       /\ ka[c].st = "running"
       /\ ka[c].pc = "backoff"
       /\ ka[c].attempts = 6
       /\ clients[c].url \notin srvUp


\* C14: a successful read of the keep-alive worker, and a reconnection of
\* the worker that ends with the client connected, leave the counter at 0 and
\* the time since the last success at 0.  The counter never counts a failure
\* older than the last success: it is at most the number of failed intervals
\* since then, so a pausing worker has had six failures and no success since.
C14_SuccessResetsCounter ==
    /\ [](\A c \in ClientIds :
            /\ ka[c].attempts <= ka[c].elapsed
            /\ ka[c].pc = "backoff" => ka[c].elapsed >= 6)
    /\ [][\A c \in ClientIds :
            /\ (KA_Tick(c) /\ clients[c].conn = "connected")
               => /\ ka'[c].attempts = 0
                  /\ ka'[c].elapsed = 0
            /\ (/\ ka[c].st = "running" /\ ka[c].pc = "connect"
                /\ ka'[c].st = "running" /\ ka'[c].pc = "tick"
                /\ clients'[c].conn = "connected")
               => /\ ka'[c].attempts = 0
                  /\ ka'[c].elapsed = 0
         ]_vars

\* C14 witness: a worker with five failures counted is reconnecting to a
\* server that accepts the connection.
C14_Witness ==
    \E c \in ClientIds :
       /\ ka[c].st = "running"
       /\ ka[c].pc = "connect"
       /\ ka[c].attempts = 5
       /\ ConnectOk(c)


\* C15: a service operation of the OpcUaClient (read_node,
\* create_subscription) that is called before connect, after disconnect, or
\* while the keep-alive worker has disconnected the client and not yet
\* reconnected it, raises the RuntimeError of _check_connection and changes
\* nothing on the client or the server.
C15_NotReadyFailsFast ==
    [][(/\ lastCall'.op \in {"oc_read_node", "oc_create_subscription"}
        /\ \/ ocl.client = NoClient
           \/ KaRunning(ocl.client) /\ ka[ocl.client].pc = "connect")
       => /\ lastCall'.res = "RuntimeError"
          /\ UNCHANGED <<clients, ka, keep_alive_tasks, srv, nextSubId, ocl, subObjs, handler, fm, itemData>>
      ]_vars


(***************************************************************************)
(* Subscription parameters: subscription.create_subscription and           *)
(* subscription.modify_subscription with the server's revision, and the    *)
(* menu operations that call them.                                         *)
(***************************************************************************)
\* The values the user enters at the prompts of modify_subscription.
PublishingIntervals == {500, 1000}
LifetimeCounts == {10, 600}
KeepAliveCounts == {20}

RequestedParams ==
    [publishing_interval : PublishingIntervals, lifetime_count : LifetimeCounts,
     max_keep_alive_count : KeepAliveCounts, priority : {0}]

\* The server answers a request for parameters with revised ones: here it
\* keeps the interval and the keep-alive count and picks a lifetime count.
RevisedLifetimeCounts == {10, 60, 600}

ServerRevision(asked, l) == [asked EXCEPT !.lifetime_count = l]

\* The attributes subscription.modify_subscription looks for on
\* subscription.server, in this order (lines 254, 269, 274); "none" when it
\* finds no way to send the request.
ModifyApis == {"modify_subscriptions", "modify_subscription", "uaclient", "none"}

\* The server's answer to ModifySubscription.
ServerAnswers(live) ==
    IF live THEN {"Good", "BadServiceUnsupported", "BadUserAccessDenied"}
    ELSE {"BadSubscriptionIdInvalid"}

\* The three Requested* attributes of subscription.parameters set from p.
SetRequested(old, p) ==
    [old EXCEPT !.publishing_interval = p.publishing_interval,
                !.lifetime_count = p.lifetime_count,
                !.max_keep_alive_count = p.max_keep_alive_count]

\* subscription.create_subscription, lines 169-200: the warning about the
\* revised values.  The values are read from subscription.parameters with
\* getattr(..., 'Revised...', requested): exposes tells whether the object
\* carries the Revised* attributes.
CreateWarns(asked, rev, exposes) ==
    LET actual == IF exposes THEN rev ELSE asked IN
    /\ \/ actual.publishing_interval # asked.publishing_interval
       \/ actual.lifetime_count # asked.lifetime_count
       \/ actual.max_keep_alive_count # asked.max_keep_alive_count
    /\ actual.lifetime_count < actual.max_keep_alive_count * 3

\* A modification that leaves subscription.parameters as they are.
ModifyParametersKeep(api, ans, old, req, rev) == old

\* subscription.modify_subscription, lines 219-330: subscription.parameters
\* after the call.
ModifyParameters(api, ans, old, req, rev) ==
    IF api = "none" THEN SetRequested(old, req)                  \* lines 289-299
    ELSE IF ans = "Good"
         THEN IF api = "modify_subscriptions"
              THEN SetRequested(old, rev)                        \* lines 264, 332-340
              ELSE old                                           \* lines 269-287
    ELSE IF ans = "BadServiceUnsupported"
         THEN SetRequested(old, req)                             \* lines 306-315
    ELSE SetRequested(old, req)                                  \* lines 317-328

\* subscription.modify_subscription: the value it returns; subscription has
\* the attributes server and parameters.
ModifyResult(api, ans) ==
    IF api = "none" THEN TRUE                                    \* line 299
    ELSE IF ans = "Good" THEN TRUE                               \* lines 265, 272, 287
    ELSE IF ans = "BadServiceUnsupported" THEN TRUE              \* line 314
    ELSE TRUE                                                    \* line 327

\* The server after the request: a modification it accepts revises the
\* parameters it runs the subscription with.
ModifySrv(sv, id, api, ans, rev) ==
    IF api # "none" /\ ans = "Good" THEN [sv EXCEPT ![id].revised = rev] ELSE sv

\* opcua_app.create_subscription, lines 819-856, with a server that revises:
\* the sub_info stores the arguments of the call.
create_subscription_revised(c, list, sv, next, rev) ==
    IF c # NoClient /\ clients[c].conn = "connected"
    THEN [subs |-> Append(list, [id |-> next,
                                 subscription |-> [id |-> next, client |-> c],
                                 params |-> DefaultParams,
                                 parameters |-> validate_subscription_parameters(DefaultParams),
                                 monitored_items |-> <<>>,
                                 h_key |-> next, h_pubOff |-> FALSE]),
          sv |-> DictSet(sv, next, SrvNewSubRevised(c, rev)), next |-> next + 1]
    ELSE [subs |-> list, sv |-> sv, next |-> next]

\* opcua_app.modify_subscription, mod_type "1", lines 1168-1195: the sub_info
\* takes the entered values when the library call returned True.
modify_subscription(list, sv, i, req, api, ans, rev) ==
    [subs |-> [list EXCEPT
                 ![i].parameters = ModifyParameters(api, ans, @, req, rev),
                 ![i].params = IF ModifyResult(api, ans) THEN SetRequested(@, req) ELSE @],
     sv |-> ModifySrv(sv, list[i].id, api, ans, rev)]

\* A completed call on the parameters of a subscription: the values asked
\* for, the server's answer ("none" when no request was sent), whether a
\* warning was logged.
ParamCall(op, sub, res, req, ans, warned) ==
    [op |-> op, name |-> "none", cl |-> uctx.client, sub |-> sub, res |-> res,
     disc |-> FALSE, req |-> req, ans |-> ans, warned |-> warned]

\* The end of a menu choice that leaves a record of its call.
FinishCall(subs, sv, next, call) ==
    /\ next <= MaxSubId + 1
    /\ subscription_lists' = DictSet(subscription_lists, current_session_id, subs)
    /\ srv' = sv
    /\ nextSubId' = next
    /\ upc' = "idle"
    /\ uctx' = Idle
    /\ lastCall' = call
    /\ UNCHANGED <<clients, ka, keep_alive_tasks, sessions, srvUp, srvNodes, libVars,
                   current_session_id, userClosed>>

\* choice 10, lines 2228-2235, with a server that revises the parameters.
Body_CreateRevised(l, exposes) ==
    /\ upc = "body" /\ uctx.choice = "create"
    /\ LET asked == validate_subscription_parameters(DefaultParams)
           rev == ServerRevision(asked, l)
           r == create_subscription_revised(uctx.client, RegistryList, srv, nextSubId, rev)
       IN FinishCall(r.subs, r.sv, r.next,
                     ParamCall("create_subscription", nextSubId,
                               IF r.next = nextSubId THEN "raise" ELSE "ok",
                               asked, "Good", CreateWarns(asked, rev, exposes)))

\* choice 11, mod_type "1", lines 2237-2247 and 1168-1195.
Body_Modify(sel, req, api, ans, l) ==
    /\ upc = "body" /\ uctx.choice = "modify"
    /\ current_session_id \in DOMAIN subscription_lists
    /\ (api = "none") = (ans = "none")
    /\ LET r == Recovered(RegistryList)
           i == Select(r.subs, sel)
           rev == ServerRevision(req, l)
       IN IF i = 0 THEN Finish(r.subs, r.sv, r.next)
          ELSE /\ api # "none" => ans \in ServerAnswers(SubLive(r.sv, clients, r.subs[i].subscription))
               /\ LET m == modify_subscription(r.subs, r.sv, i, req, api, ans, rev)
                  IN FinishCall(m.subs, m.sv, r.next,
                                ParamCall("modify_subscription", r.subs[i].id,
                                          IF ModifyResult(api, ans) THEN "True" ELSE "False",
                                          req, ans, FALSE))

(***************************************************************************)
(* SpecParams: one session whose subscriptions are created and modified    *)
(* with parameters the server revises, accepts or refuses.                 *)
(***************************************************************************)
AllAnswers == ServerAnswers(TRUE) \cup ServerAnswers(FALSE) \cup {"none"}

NextParams ==
    \/ connect_to_server("s1", DEFAULT_SERVER_URL)
    \/ \E choice \in {"create", "modify"} : Menu(choice)
    \/ \E l \in RevisedLifetimeCounts, exposes \in BOOLEAN : Body_CreateRevised(l, exposes)
    \/ \E sel \in 1..MaxSubs, req \in RequestedParams, api \in ModifyApis,
          ans \in AllAnswers, l \in RevisedLifetimeCounts : Body_Modify(sel, req, api, ans, l)

SpecParams == Init /\ [][NextParams]_vars

(***************************************************************************)
(* Claims checked under SpecParams.                                        *)
(***************************************************************************)
\* C16: after a modify_subscription that the server has accepted, the
\* parameters the client holds for every registered subscription that is
\* live on the server (the sub_info's values and the Subscription object's
\* parameters) have a lifetime count of at least three times the max
\* keep-alive count.
C16_LifetimeRatioAfterModify ==
    [][(lastCall'.op = "modify_subscription" /\ lastCall'.ans = "Good")
       => \A i \in 1..Len(subscription_lists'[current_session_id]) :
             LET si == subscription_lists'[current_session_id][i] IN
             SubLive(srv', clients', si.subscription)
             => /\ si.params.lifetime_count >= 3 * si.params.max_keep_alive_count
                /\ si.parameters.lifetime_count >= 3 * si.parameters.max_keep_alive_count
      ]_vars


\* C17: when the server has revised the parameters of a subscription that
\* create_subscription creates to a lifetime count below three times the max
\* keep-alive count, the call logs a warning, returns the subscription, and
\* the server keeps the revised values.
C17_CreateWarnsOnRevisedRatio ==
    [][(/\ lastCall'.op = "create_subscription"
        /\ lastCall'.res = "ok"
        /\ srv'[lastCall'.sub].revised.lifetime_count
              < 3 * srv'[lastCall'.sub].revised.max_keep_alive_count)
       => /\ lastCall'.warned
          /\ \E i \in 1..Len(subscription_lists'[current_session_id]) :
                subscription_lists'[current_session_id][i].id = lastCall'.sub
      ]_vars

\* C18: when the server answers ModifySubscription with BadServiceUnsupported,
\* modify_subscription returns True, the Requested* values of the
\* subscription's parameters and the values of the sub_info are the ones
\* asked for, and the values the server has revised stay as they were.
C18_UnsupportedKeepsRequested ==
    [][(lastCall'.op = "modify_subscription" /\ lastCall'.ans = "BadServiceUnsupported")
       => /\ lastCall'.res = "True"
          /\ srv'[lastCall'.sub].revised = srv[lastCall'.sub].revised
          /\ \E i \in 1..Len(subscription_lists'[current_session_id]) :
                LET si == subscription_lists'[current_session_id][i]
                    old == subscription_lists[current_session_id][i]
                IN /\ si.id = lastCall'.sub
                   /\ si.parameters = SetRequested(old.parameters, lastCall'.req)
                   /\ si.params = SetRequested(old.params, lastCall'.req)
      ]_vars

\* C18 witness: the server has refused a modification as unsupported and the
\* subscription's parameters hold a lifetime count that differs from the one
\* the server runs the subscription with.
C18_Witness ==
    /\ lastCall.op = "modify_subscription"
    /\ lastCall.ans = "BadServiceUnsupported"
    /\ \E i \in 1..Len(subscription_lists[current_session_id]) :
          LET si == subscription_lists[current_session_id][i] IN
          /\ si.id = lastCall.sub
          /\ si.parameters.lifetime_count = lastCall.req.lifetime_count
          /\ si.parameters.lifetime_count # srv[si.id].revised.lifetime_count

\* C19: when the server rejects ModifySubscription with an error other than
\* BadServiceUnsupported, modify_subscription does not return True, and the
\* session is not put into recovery.
C19_DomainErrorSurfaces ==
    [][(/\ lastCall'.op = "modify_subscription"
        /\ lastCall'.ans \in {"BadUserAccessDenied", "BadSubscriptionIdInvalid"})
       => /\ lastCall'.res # "True"
          /\ upc' = "idle"
          /\ UNCHANGED <<clients, sessions>>
      ]_vars


(***************************************************************************)
(* Monitored items of a Subscription object used directly:                 *)
(* subscription.subscribe_data_change and subscription.modify_monitored_item.*)
(***************************************************************************)
\* deadband_filter_value: None is <<>>, the number v is <<v>>.
DeadbandValues == {-1, 2}
DeadbandArgs == {<<>>} \cup {<<v>> : v \in DeadbandValues}

\* How the Subscription object can be asked to modify an item: it has the
\* method modify_monitored_item (line 733), or only server.uaclient (line
\* 764), or neither.
ItemApis == {"modify_monitored_item", "uaclient", "none"}

\* A data change filter has no result structure: the FilterResult of the
\* server's answer to a good modification is null.
FilterResult == NoFilter

\* A completed call on one monitored item.
ItemCall(op, sub, h, dv, res) ==
    [op |-> op, name |-> "none", cl |-> sub.client, sub |-> sub.id, res |-> res,
     disc |-> FALSE, handle |-> h, dv |-> dv]

\* _create_deadband_filter(deadband_filter_value, item_data), lines 824-840;
\* item_data is the record of the item in the object's map.
create_deadband_filter(dv, item_data) ==
    IF dv = <<>> THEN NoFilter
    ELSE IF dv[1] < 0 THEN item_data.mfilter
    ELSE DataChangeFilter(dv[1])

\* ModifyMonitoredItems for one item: the server takes the filter it is sent.
SrvModifyItem(sv, id, h, f) == [sv EXCEPT ![id].filters[h] = f]

\* A completed subscribe_data_change for node n.
SubscribeCall(sub, h, n, res) ==
    [op |-> "subscribe_data_change", name |-> "none", cl |-> sub.client,
     sub |-> sub.id, res |-> res, disc |-> FALSE, handle |-> h, dv |-> <<>>,
     node |-> n]

\* subscribe_data_change on a server that creates the item whatever the node.
subscribe_data_changeAnyNode(sub, n) ==
    /\ upc = "idle"
    /\ sub \in subObjs
    /\ Cardinality(DOMAIN itemData[sub.id]) < MaxItems
    /\ IF SubLive(srv, clients, sub)
       THEN LET h == srv[sub.id].nh IN
            /\ srv' = SrvAddItem(srv, sub.id)
            /\ itemData' = [itemData EXCEPT ![sub.id] =
                               DictSet(@, h, [mfilter |-> NoFilter])]
            /\ lastCall' = SubscribeCall(sub, h, n, "ok")
       ELSE /\ lastCall' = SubscribeCall(sub, 0, n, "raise")
            /\ UNCHANGED <<srv, itemData>>
    /\ UNCHANGED <<clients, ka, keep_alive_tasks, sessions, envVars, ocl, cobj,
                   subObjs, handler, fm, appVars, userClosed>>

\* subscription.subscribe_data_change(subscription, node_id), lines 564-608:
\* the handle is returned, a failure is raised again. The object records the
\* item with the filter it was created with, which is none. Each of the four
\* calls of _create_monitored_item (lines 667-705) is refused in the same way
\* for a node the server lacks, and ValueError is raised at line 703.
subscribe_data_change(sub, n) ==
    /\ upc = "idle"
    /\ sub \in subObjs
    /\ Cardinality(DOMAIN itemData[sub.id]) < MaxItems
    /\ IF SubLive(srv, clients, sub) /\ ItemCreatable(n)
       THEN LET h == srv[sub.id].nh IN
            /\ srv' = SrvAddItem(srv, sub.id)
            /\ itemData' = [itemData EXCEPT ![sub.id] =
                               DictSet(@, h, [mfilter |-> NoFilter])]
            /\ lastCall' = SubscribeCall(sub, h, n, "ok")
       ELSE /\ lastCall' = SubscribeCall(sub, 0, n, "raise")
            /\ UNCHANGED <<srv, itemData>>
    /\ UNCHANGED <<clients, ka, keep_alive_tasks, sessions, envVars, ocl, cobj,
                   subObjs, handler, fm, appVars, userClosed>>

\* subscription.modify_monitored_item(subscription, handle, new_sampling_interval,
\* new_queuesize, deadband_filter_value), lines 708-757, with
\* _manual_modify_monitored_item, lines 760-821.
\*   api "modify_monitored_item": the object's own method builds the filter
\*     from its record of the item and sends it; afterwards the record holds
\*     the filter sent (keeps) or the FilterResult of the answer, depending
\*     on the library.
\*   api "uaclient": lines 769-812; the record is set to result.FilterResult.
\*   api "none": line 765, nothing is sent.
\* An unknown handle, a lost link or a subscription the server no longer
\* holds end in False (lines 779-781, 755-757, 816-821).
modify_monitored_item(sub, h, dv, api, keeps) ==
    /\ upc = "idle"
    /\ sub \in subObjs
    /\ (api = "modify_monitored_item") \/ ~keeps
    /\ LET known == h \in DOMAIN itemData[sub.id]
           good == SubLive(srv, clients, sub) /\ h \in srv[sub.id].handles
       IN IF api # "none" /\ known /\ good
          THEN LET f == create_deadband_filter(dv, itemData[sub.id][h]) IN
               /\ srv' = SrvModifyItem(srv, sub.id, h, f)
               /\ itemData' = [itemData EXCEPT ![sub.id][h].mfilter =
                                  IF keeps THEN f ELSE FilterResult]
               /\ lastCall' = ItemCall("modify_monitored_item", sub, h, dv, "True")
          ELSE /\ lastCall' = ItemCall("modify_monitored_item", sub, h, dv, "False")
               /\ UNCHANGED <<srv, itemData>>
    /\ UNCHANGED <<clients, ka, keep_alive_tasks, sessions, envVars, ocl, cobj,
                   subObjs, handler, fm, appVars, userClosed>>

(***************************************************************************)
(* SpecFilter: an OpcUaClient, its subscriptions and their monitored       *)
(* items, modified with every kind of deadband_filter_value, with link     *)
(* failures.                                                               *)
(***************************************************************************)
NextFilter ==
    \/ \E url \in Urls : OpcUaClient_connect(url)
    \/ OpcUaClient_create_subscription
    \/ \E sub \in subObjs, n \in NodeIds : subscribe_data_change(sub, n)
    \/ \E sub \in subObjs, h \in 1..MaxItems, dv \in DeadbandArgs,
          api \in ItemApis, keeps \in BOOLEAN :
            modify_monitored_item(sub, h, dv, api, keeps)
    \/ \E c \in 1..MaxClients : LinkFail(c)

SpecFilter == Init /\ [][NextFilter]_vars

\* C20: a modify_monitored_item that returns True leaves the server with the
\* filter the tri-state asks for: for a negative deadband_filter_value
\* (unset) the filter the item had before the call, for None no filter, for
\* a value d >= 0 an absolute-deadband DataChangeFilter with DeadbandValue d.
C20_FilterTriState ==
    [][ \A sub \in subObjs, h \in 1..MaxItems, dv \in DeadbandArgs,
           api \in ItemApis, keeps \in BOOLEAN :
          (modify_monitored_item(sub, h, dv, api, keeps) /\ lastCall'.res = "True")
          => srv'[sub.id].filters[h] =
                IF dv = <<>> THEN NoFilter
                ELSE IF dv[1] < 0 THEN srv[sub.id].filters[h]
                ELSE DataChangeFilter(dv[1])
      ]_vars


\* C21: a successful modify_monitored_item with the filter unset (a negative
\* deadband_filter_value), made right after the item got its filter F by
\* creation or by a successful modify with a new value, sends exactly F to
\* the server and leaves the object's record of the item holding F.
C21_UnsetPreservesFilter ==
    [][ \A sub \in subObjs, h \in 1..MaxItems, api \in ItemApis, keeps \in BOOLEAN :
          LET set == /\ lastCall.sub = sub.id
                     /\ lastCall.handle = h
                     /\ \/ lastCall.op = "subscribe_data_change" /\ lastCall.res = "ok"
                        \/ /\ lastCall.op = "modify_monitored_item"
                           /\ lastCall.res = "True"
                           /\ lastCall.dv # <<>>
                           /\ lastCall.dv # <<-1>>
              F == IF lastCall.op = "subscribe_data_change" THEN NoFilter
                   ELSE DataChangeFilter(lastCall.dv[1])
          IN (/\ lastCall.op \in {"subscribe_data_change", "modify_monitored_item"}
              /\ set
              /\ modify_monitored_item(sub, h, <<-1>>, api, keeps)
              /\ lastCall'.res = "True")
             => /\ srv'[sub.id].filters[h] = F
                /\ itemData'[sub.id][h].mfilter = F
      ]_vars


(***************************************************************************)
(* SpecItems: monitored items added to the subscriptions of an OpcUaClient *)
(* while nodes disappear from the server and the link fails.               *)
(***************************************************************************)
NextItems ==
    \/ \E url \in Urls : OpcUaClient_connect(url)
    \/ OpcUaClient_create_subscription
    \/ \E sub \in subObjs, n \in NodeIds : subscribe_data_change(sub, n)
    \/ \E n \in NodeIds : NodeDelete(n)
    \/ \E c \in 1..MaxClients : LinkFail(c)

SpecItems == Init /\ [][NextItems]_vars

\* The sub_info list opcua_app would hold for the subscriptions of the client
\* (lines 840-846, 1076-1082): one entry per subscription with its items.
ItemList(sub) ==
    LET hs == DOMAIN itemData[sub.id]
        RECURSIVE Items(_)
        Items(S) == IF S = {} THEN <<>>
                    ELSE LET h == CHOOSE x \in S : \A y \in S : x <= y
                         IN <<[handle |-> h, node_id |-> "n1",
                               sampling_interval |-> 100, h_handle |-> h]>>
                            \o Items(S \ {h})
    IN Items(hs)

AppList ==
    [i \in 1..Len(ocl.subscriptions) |->
        [id |-> ocl.subscriptions[i].id, subscription |-> ocl.subscriptions[i],
         monitored_items |-> ItemList(ocl.subscriptions[i])]]

\* C22: subscribe_data_change for a node the server does not have raises to
\* the caller and changes neither the server-side subscription nor the
\* object's item records; add_monitored_item of the application then returns
\* the list as it was, with the items it held.
C22_UnknownNodeLeavesSubscription ==
    /\ [](\A sel \in 1..MaxSubId, n \in NodeIds \ srvNodes :
             add_item(AppList, srv, sel, n) = [subs |-> AppList, sv |-> srv])
    /\ [][ \A sub \in subObjs, n \in NodeIds :
             (n \notin srvNodes /\ subscribe_data_change(sub, n))
             => /\ lastCall'.res = "raise"
                /\ srv' = srv
                /\ itemData' = itemData
         ]_vars

\* An unknown node was asked for on a live subscription that holds an item.
C22_Witness ==
    /\ lastCall.op = "subscribe_data_change"
    /\ lastCall.res = "raise"
    /\ lastCall.node \notin srvNodes
    /\ \E sub \in subObjs :
         /\ sub.id = lastCall.sub
         /\ SubLive(srv, clients, sub)
         /\ srv[sub.id].handles # {}


(***************************************************************************)
(* DataChangeHandler (subscription.py 413-562): the object handed to the   *)
(* library as subscription handler. The library starts one                 *)
(* datachange_notification coroutine per notification; nothing in the      *)
(* handler makes a coroutine wait for the one started before it, so the    *)
(* coroutines in progress advance in any order from await to await.        *)
(* The value of the k-th notification of a node is k.                      *)
(***************************************************************************)
MaxNotifications == 3    \* notifications the server sends in one run

notHandler == <<connVars, sessions, envVars, ocl, cobj, subObjs, itemData, fm, appVars,
                userClosed, lastCall>>

Arrived == handler.arrived["n1"] + handler.arrived["n2"]

RemoveAt(s, k) == SubSeq(s, 1, k - 1) \o SubSeq(s, k + 1, Len(s))

\* lines 534-536: the list is replaced by the slice [-max_values:] when it
\* is longer than max_values (mv). The slice [-0:] of a Python list is the
\* slice [0:], the whole list.
Trim(vals, mv) ==
    IF Len(vals) > mv
    THEN IF mv = 0 THEN vals
         ELSE SubSeq(vals, Len(vals) - mv + 1, Len(vals))
    ELSE vals

\* The end of __call__ with an exception of the callback that is not caught.
HandlerReturnPropagates(h, k, raises) ==
    [h EXCEPT !.calls = RemoveAt(@, k),
              !.raised = IF raises THEN 1 ELSE @,
              !.escaped = @ \/ raises]

\* The end of __call__, lines 538-546: the callback has returned or raised;
\* an Exception is logged at line 546 and the coroutine ends normally.
HandlerReturn(h, k, raises) ==
    [h EXCEPT !.calls = RemoveAt(@, k),
              !.raised = IF raises THEN 1 ELSE @]

\* The library calls handler.datachange_notification(node, val, data): the
\* coroutine runs to its first await, node.read_browse_name() at line 452.
Notify(n) ==
    /\ Arrived < MaxNotifications
    /\ handler' = [handler EXCEPT
                     !.arrived[n] = @ + 1,
                     !.calls = Append(@, [node |-> n, val |-> handler.arrived[n] + 1,
                                          pc |-> "dn_name"])]
    /\ UNCHANGED notHandler

\* datachange_notification, lines 452-482: the read has answered or failed
\* (the name is only printed), then self(node, val, data) runs to its first
\* await, node.read_browse_name() at line 512.
DN_Name(k) ==
    /\ k \in 1..Len(handler.calls)
    /\ handler.calls[k].pc = "dn_name"
    /\ handler' = [handler EXCEPT !.calls[k].pc = "call_name"]
    /\ UNCHANGED notHandler

\* __call__, lines 513-543: after the read the value is appended to
\* stored_values[node_id], the list is trimmed, and the callback is called
\* with the value. A coroutine callback is awaited (isAsync), another one
\* has returned or raised when the call is over.
Call_Name(k, isAsync, raises) ==
    /\ k \in 1..Len(handler.calls)
    /\ handler.calls[k].pc = "call_name"
    /\ isAsync => ~raises
    /\ LET c == handler.calls[k]
           h == [handler EXCEPT
                   !.stored_values[c.node] = Trim(Append(@, c.val), handler.max_values),
                   !.given[c.node] = Append(@, c.val),
                   !.afterRaise = @ \/ (handler.raised > 0),
                   !.calls[k].pc = "callback"]
       IN handler' = IF isAsync THEN h ELSE HandlerReturn(h, k, raises)
    /\ UNCHANGED notHandler

\* The awaited callback returns or raises, lines 540-546.
CB_Return(k, raises) ==
    /\ k \in 1..Len(handler.calls)
    /\ handler.calls[k].pc = "callback"
    /\ handler' = HandlerReturn(handler, k, raises)
    /\ UNCHANGED notHandler

NextHandler ==
    \/ \E n \in NodeIds : Notify(n)
    \/ \E k \in 1..MaxNotifications : DN_Name(k)
    \/ \E k \in 1..MaxNotifications, isAsync \in BOOLEAN, raises \in BOOLEAN :
          Call_Name(k, isAsync, raises)
    \/ \E k \in 1..MaxNotifications, raises \in BOOLEAN : CB_Return(k, raises)

SpecHandler == Init /\ [][NextHandler]_vars

Ascending(s) == \A i \in 1..Len(s), j \in 1..Len(s) : i < j => s[i] < s[j]

\* C23: for every node the values appended to stored_values and the values
\* handed to the callback are in the order in which the notifications of
\* that node arrived, whatever the interleaving of the handler's coroutines.
C23_PerItemOrder ==
    \A n \in NodeIds :
        /\ Ascending(handler.stored_values[n])
        /\ Ascending(handler.given[n])

\* C24: an exception of the callback never leaves the handler, and every
\* notification, also one that arrives after the callback has raised, is
\* handed to the callback once its coroutine has passed the two reads.
C24_CallbackErrorSwallowed ==
    /\ ~handler.escaped
    /\ \A n \in NodeIds, v \in 1..MaxNotifications :
          v <= handler.arrived[n]
          => \/ \E i \in 1..Len(handler.given[n]) : handler.given[n][i] = v
             \/ \E k \in 1..Len(handler.calls) :
                   /\ handler.calls[k].node = n
                   /\ handler.calls[k].val = v
                   /\ handler.calls[k].pc \in {"dn_name", "call_name"}

\* The callback has raised and was called again afterwards, and all
\* notifications have been handled.
C24_Witness ==
    /\ handler.raised > 0
    /\ handler.afterRaise
    /\ handler.calls = <<>>
    /\ Arrived = MaxNotifications


(***************************************************************************)
(* OpcUaClient.write_node (client.py 112-127) with node.write_node_attribute*)
(* (node.py 416-437).                                                      *)
(***************************************************************************)
\* What can happen to the link while the Write request is under way: nothing,
\* it is lost before the request reaches the server, or it is lost after the
\* server has written and before the answer arrives.
LinkOutcomes == {"holds", "lost_before", "lost_after"}

\* The server's status for a Write to node n.
WriteStatus(n) == IF n \in srvNodes THEN "Good" ELSE "BadNodeIdUnknown"

\* A completed write_node: ack is the status the client received ("none"
\* when no answer arrived), applied tells whether the server wrote the value.
WriteCall(cl, n, res, ack, applied) ==
    [op |-> "oc_write_node", name |-> "none", cl |-> cl, sub |-> 0, res |-> res,
     disc |-> FALSE, node |-> n, ack |-> ack, applied |-> applied]

\* A write_node_attribute that logs the error and returns.
WriteResultLogged(ack) == "ok"

\* write_node_attribute, lines 431-437: node.write_attribute raises for a bad
\* status and for a missing answer; the except branch logs and raises again.
WriteResult(ack) == IF ack = "Good" THEN "ok" ELSE "raise"

OpcUaClient_write_node(n, link) ==
    /\ upc = "idle"
    /\ IF ~CheckConnectionOk
       THEN /\ link = "holds"
            /\ lastCall' = WriteCall(NoClient, n, "RuntimeError", "none", FALSE)
            /\ UNCHANGED clients
       ELSE IF clients[ocl.client].conn # "connected"
       THEN /\ link = "holds"
            /\ lastCall' = WriteCall(ocl.client, n, WriteResult("none"), "none", FALSE)
            /\ UNCHANGED clients
       ELSE IF link = "holds"
       THEN /\ lastCall' = WriteCall(ocl.client, n, WriteResult(WriteStatus(n)),
                                     WriteStatus(n), WriteStatus(n) = "Good")
            /\ UNCHANGED clients
       ELSE /\ clients' = [clients EXCEPT ![ocl.client].conn = "lost"]
            /\ lastCall' = WriteCall(ocl.client, n, WriteResult("none"), "none",
                                     link = "lost_after" /\ WriteStatus(n) = "Good")
    /\ UNCHANGED <<ka, keep_alive_tasks, srv, sessions, envVars, libVars, appVars,
                   userClosed>>

(***************************************************************************)
(* SpecWrite: an OpcUaClient that writes while nodes disappear, the link   *)
(* fails, the keep-alive worker reconnects and the client is closed.       *)
(***************************************************************************)
NextWrite ==
    \/ \E url \in Urls : OpcUaClient_connect(url)
    \/ OpcUaClient_disconnect
    \/ \E n \in NodeIds, link \in LinkOutcomes : OpcUaClient_write_node(n, link)
    \/ \E n \in NodeIds : NodeDelete(n)
    \/ \E c \in 1..MaxClients : KeepAliveUp(c)
    \/ \E c \in 1..MaxClients : LinkFail(c)

SpecWrite == Init /\ [][NextWrite]_vars

\* C25: write_node returns normally only when the server's answer to the
\* Write was received and its status is Good, and then the server has
\* written the value; in every other case, a link lost during the call
\* included, the call raises.
C25_WriteSuccessIsAcknowledged ==
    lastCall.op = "oc_write_node"
    => /\ lastCall.res = "ok" => (lastCall.ack = "Good" /\ lastCall.applied)
       /\ lastCall.ack # "Good" => lastCall.res \in {"raise", "RuntimeError"}

\* The link was lost after the server had written: the value is on the
\* server and the call has raised.
C25_Witness ==
    /\ lastCall.op = "oc_write_node"
    /\ lastCall.applied
    /\ lastCall.ack = "none"
    /\ lastCall.res = "raise"


(***************************************************************************)
(* SpecRebind: recovery of the application's session where the server may  *)
(* not learn of the old client's disconnect. A CloseSession sent over a    *)
(* lost link does not arrive: the server keeps the session's subscriptions *)
(* until it gives the session up.                                          *)
(***************************************************************************)
\* check_and_reconnect, lines 264-268, on a lost link: disconnect() ends
\* (its error is ignored) without the server being told.
CR_DisconnectUnreached ==
    /\ upc = "cr_disconnect"
    /\ clients[uctx.client].conn = "lost"
    /\ clients' = Disconnected(clients, uctx.client)
    /\ upc' = "cr_create"
    /\ lastCall' = NoCall
    /\ UNCHANGED <<ka, keep_alive_tasks, srv, sessions, envVars, libVars,
                   current_session_id, subscription_lists, uctx, userClosed>>

\* Environment: the server gives up the session of a client that is closed
\* and drops its subscriptions.
SrvExpire(c) ==
    /\ c \in ClientIds
    /\ clients[c].conn = "closed"
    /\ \E id \in DOMAIN srv : srv[id].client = c
    /\ srv' = SrvDropClient(srv, c)
    /\ UNCHANGED <<clients, ka, keep_alive_tasks, sessions, envVars, libVars, appVars,
                   userClosed, lastCall>>

NextRebind ==
    \/ \E url \in Urls : connect_to_server("s1", url)
    \/ \E choice \in {"read", "create"} : Menu(choice)
    \/ CR_Disconnect
    \/ CR_DisconnectUnreached
    \/ CR_Create
    \/ Body_Read
    \/ Body_Create
    \/ \E c \in 1..MaxClients : LinkFail(c)
    \/ \E c \in 1..MaxClients : SrvExpire(c)

SpecRebind == Init /\ [][NextRebind]_vars

\* C26: whenever the entry registered under a key gets bound to another
\* server subscription, the subscription it was bound to before is no longer
\* held by the server.
C26_ReboundKeyOldNotLive ==
    [][ \A i \in 1..Len(RegistryList), j \in 1..Len(RegistryList') :
          (/\ RegistryList[i].h_key = RegistryList'[j].h_key
           /\ RegistryList[i].id # RegistryList'[j].id)
          => RegistryList[i].id \notin DOMAIN srv'
      ]_vars


(***************************************************************************)
(* method.call_method_with_typed_params (method.py 252-327) with           *)
(* call_method_with_params (40-74). A Python value is [py, repr]: its type *)
(* and its repr(); a Variant is [type, repr, arg], arg being the position  *)
(* of the input value it was made from.                                    *)
(***************************************************************************)
MaxArgs == 2     \* input arguments a method declares, and values supplied

\* DataType names get_method_info reports for the declared arguments.
DeclaredTypes == {"Boolean", "Int32", "Int64", "Double", "String", "Byte"}

InputValues ==
    {[py |-> "int", repr |-> "7"], [py |-> "float", repr |-> "2.5"],
     [py |-> "str", repr |-> "7"], [py |-> "str", repr |-> "true"],
     [py |-> "bool", repr |-> "True"]}

SeqsUpTo(S, n) == UNION {[1..k -> S] : k \in 0..n}

Raises == [py |-> "raise", repr |-> "ValueError"]

\* int(value), for values that are not int instances (bool is one).
PyInt(val) ==
    IF val.py = "float" THEN [py |-> "int", repr |-> "2"]
    ELSE IF val.py = "str" /\ val.repr = "7" THEN [py |-> "int", repr |-> "7"]
    ELSE Raises

\* float(value).
PyFloat(val) ==
    IF val.py = "float" THEN val
    ELSE IF val.py = "int" THEN [py |-> "float", repr |-> "7.0"]
    ELSE IF val.py = "bool" THEN [py |-> "float", repr |-> "1.0"]
    ELSE IF val.repr = "7" THEN [py |-> "float", repr |-> "7.0"]
    ELSE Raises

\* str(value).
PyStr(val) == [py |-> "str", repr |-> val.repr]

\* lines 285-289: a string is true when it is one of true/yes/1/y, any other
\* value goes through bool().
PyBool(val) ==
    IF val.py = "str"
    THEN [py |-> "bool", repr |-> IF val.repr = "true" THEN "True" ELSE "False"]
    ELSE [py |-> "bool", repr |-> "True"]

\* The tests '"Int" in data_type' etc. of lines 285-298.
HasBoolean(dt) == dt = "Boolean"
HasInt(dt) == dt \in {"Int32", "Int64"}
HasDouble(dt) == dt = "Double"
HasString(dt) == dt = "String"

\* lines 280-300: the conversion of one value for its declared type.
Convert(val, dt) ==
    IF HasBoolean(dt) /\ val.py # "bool" THEN PyBool(val)
    ELSE IF HasInt(dt) /\ val.py \notin {"int", "bool"} THEN PyInt(val)
    ELSE IF HasDouble(dt) THEN PyFloat(val)
    ELSE IF HasString(dt) /\ val.py # "str" THEN PyStr(val)
    ELSE val

\* ua.Variant(arg), line 63: the variant type is taken from the Python type.
VariantTypeOf(val) ==
    CASE val.py = "bool" -> "Boolean"
      [] val.py = "int" -> "Int64"
      [] val.py = "float" -> "Double"
      [] OTHER -> "String"

Variant(val, i) == [type |-> VariantTypeOf(val), repr |-> val.repr, arg |-> i]

\* A completed call: invoked counts the Call requests sent to the server,
\* sent is the argument list of the request.
TypedCall(declared, values, res, invoked, sent) ==
    [op |-> "call_method_with_typed_params", name |-> "none", cl |-> 0, sub |-> 0,
     res |-> res, disc |-> FALSE, declared |-> declared, values |-> values,
     invoked |-> invoked, sent |-> sent]

\* call_method_with_typed_params(client, object_id, method_id, values) for a
\* method that declares the input arguments 'declared'. reach: the server
\* answers the requests; otherwise get_method_info raises at line 271.
call_method_with_typed_params(declared, values, reach) ==
    /\ upc = "idle"
    /\ lastCall' =
         IF ~reach THEN TypedCall(declared, values, "raise", 0, <<>>)
         ELSE IF Len(values) # Len(declared)
         THEN TypedCall(declared, values, "ValueError", 0, <<>>)
         ELSE LET conv == [i \in 1..Len(values) |-> Convert(values[i], declared[i])]
              IN IF \E i \in 1..Len(conv) : conv[i] = Raises
                 THEN TypedCall(declared, values, "ValueError", 0, <<>>)
                 ELSE TypedCall(declared, values, "ok", 1,
                                [i \in 1..Len(conv) |-> Variant(conv[i], i)])
    /\ UNCHANGED <<connVars, sessions, envVars, libVars, appVars, userClosed>>

NextMethod ==
    \E declared \in SeqsUpTo(DeclaredTypes, MaxArgs),
       values \in SeqsUpTo(InputValues, MaxArgs), reach \in BOOLEAN :
         call_method_with_typed_params(declared, values, reach)

SpecMethod == Init /\ [][NextMethod]_vars

\* C27: with a number of values other than the number of declared input
\* arguments the call raises the argument-count ValueError and no Call
\* request is sent; otherwise exactly one Call request is sent whose
\* arguments are the supplied values, in order, each with the declared type.
C27_TypedCall ==
    (lastCall.op = "call_method_with_typed_params" /\ lastCall.res # "raise")
    => IF Len(lastCall.values) # Len(lastCall.declared)
       THEN lastCall.res = "ValueError" /\ lastCall.invoked = 0
       ELSE /\ lastCall.invoked = 1
            /\ Len(lastCall.sent) = Len(lastCall.declared)
            /\ \A i \in 1..Len(lastCall.sent) :
                  /\ lastCall.sent[i].arg = i
                  /\ lastCall.sent[i].type = lastCall.declared[i]


(***************************************************************************)
(* subscription.normalize_node_id (subscription.py 397-410) and            *)
(* utils.format_node_id (utils.py 222-236). A NodeId is [ns, type, id]     *)
(* with the namespace index and the identifier written as text; a string   *)
(* is the sequence of the pieces it is put together from.                  *)
(***************************************************************************)
Namespaces == {"0", "1", "2"}
NumericIds == {"5", "85"}
StringIds == {"5", "Demo"}

AllNodeIds ==
    [ns : Namespaces, type : {"Numeric"}, id : NumericIds]
    \cup [ns : Namespaces, type : {"String"}, id : StringIds]

\* normalize_node_id(node_id) for a ua.NodeId, lines 401-408.
normalize_node_id(nid) ==
    IF nid.ns = "0" THEN <<"i=", nid.id>>
    ELSE IF nid.type = "String" THEN <<"ns=", nid.ns, ";s=", nid.id>>
    ELSE <<"ns=", nid.ns, ";i=", nid.id>>

\* format_node_id(namespace, identifier), lines 233-236: an int identifier
\* gives the i= form, anything else the s= form.
format_node_id(ns, type, id) ==
    IF type = "Numeric" THEN <<"ns=", ns, ";i=", id>>
    ELSE <<"ns=", ns, ";s=", id>>

\* The canonical form: i=N, ns=N;i=N, ns=N;s=TEXT.
Canonical(nid) ==
    IF nid.type = "String" THEN <<"ns=", nid.ns, ";s=", nid.id>>
    ELSE IF nid.ns = "0" THEN <<"i=", nid.id>>
    ELSE <<"ns=", nid.ns, ";i=", nid.id>>

\* Two node ids are put into string form.
Normalize(a, b) ==
    /\ upc = "idle"
    /\ lastCall' = [op |-> "normalize_node_id", name |-> "none", cl |-> 0, sub |-> 0,
                    res |-> "ok", disc |-> FALSE, a |-> a, b |-> b,
                    sa |-> normalize_node_id(a), sb |-> normalize_node_id(b),
                    fa |-> format_node_id(a.ns, a.type, a.id)]
    /\ UNCHANGED <<connVars, sessions, envVars, libVars, appVars, userClosed>>

NextNodeId == \E a \in AllNodeIds, b \in AllNodeIds : Normalize(a, b)

SpecNodeId == Init /\ [][NextNodeId]_vars

\* C28: normalize_node_id gives i=N for a numeric identifier in namespace 0,
\* ns=N;i=N for a numeric identifier in another namespace and ns=N;s=TEXT
\* for a string identifier, and two different NodeIds never get the same
\* string.
C28_CanonicalNodeId ==
    lastCall.op = "normalize_node_id"
    => /\ lastCall.sa = Canonical(lastCall.a)
       /\ lastCall.a # lastCall.b => lastCall.sa # lastCall.sb


\* C29: every client whose session was created with a keep-alive task and is
\* still open (connected, not closed through the API) has its keep-alive
\* task running: creating or closing another session never cancels it.
C29_KeepAliveIsolation ==
    \A c \in ClientIds :
        (/\ ka[c].st # "none"
         /\ clients[c].conn = "connected"
         /\ c \notin userClosed)
        => ka[c].st = "running"


\* C30: when a menu action ends for which check_and_reconnect has replaced
\* the client of the session, every subscription in the session's list is
\* bound to the new client.
C30_RecreatedBeforeActionEnds ==
    [][ (upc = "body" /\ uctx.reconnected /\ upc' = "idle")
        => \A i \in 1..Len(RegistryList') :
              RegistryList'[i].subscription.client = uctx.client
      ]_vars



\* C31: when the delete choice of the menu ends, every entry that has left
\* the session's subscription list is one whose deletion on the server
\* succeeded, that is, one the server still held for a connected client when
\* subscription.delete_subscription was called on it.
C31_RemovedOnlyIfDeleted ==
    [][ (/\ upc = "body"
         /\ uctx.choice \in {"delete", "delete_all"}
         /\ upc' = "idle"
         /\ current_session_id \in DOMAIN subscription_lists)
        => LET r == Recovered(RegistryList) IN
           \A i \in 1..Len(r.subs) :
              (\A j \in 1..Len(RegistryList') :
                    RegistryList'[j].h_key # r.subs[i].h_key)
              => SubLive(r.sv, clients, r.subs[i].subscription)
      ]_vars



(***************************************************************************)
(* SpecLive: the sessions connection.create_session opens to one server,   *)
(* their keep-alive workers, link failures and outages of that server.     *)
(* The event loop runs every task that is ready: each await of a worker    *)
(* (the read, disconnect(), connect(), the sleeps) returns or raises, so   *)
(* a worker that can take its next step eventually takes it.               *)
(***************************************************************************)
NextLive ==
    \/ create_session(DEFAULT_SERVER_URL)
    \/ \E c \in 1..MaxClients : close_session(c)
    \/ \E c \in 1..MaxClients : KeepAlive(c)
    \/ \E c \in 1..MaxClients : LinkFail(c)
    \/ ServerDown(DEFAULT_SERVER_URL)
    \/ ServerUp(DEFAULT_SERVER_URL)

SpecLive ==
    /\ Init
    /\ [][NextLive]_vars
    /\ \A c \in 1..MaxClients : WF_vars(KeepAlive(c))

\* The worker of client c is at its keep-alive read on a verified
\* connection, all counters reset: the read at lines 42-49 returns.
KeepAliveGood(c) ==
    /\ c \in ClientIds
    /\ ka[c].st = "running"
    /\ ka[c].pc = "tick"
    /\ ka[c].attempts = 0
    /\ clients[c].conn = "connected"

KeyOrders(ks) ==
    {o \in [1..Cardinality(ks) -> ks] : \A i, j \in DOMAIN o : o[i] = o[j] => i = j}

\* The loop over list(self.sessions.keys()), each session closed by
\* self.close_session: disconnect(), then the deletion of the entry. r is the
\* position at which disconnect() raises, 0 when it never does: the exception
\* leaves the loop, the entry at r and those after it stay.
RECURSIVE CloseEach(_, _, _, _)
CloseEach(order, r, i, st) ==
    IF i > Len(order) \/ (r # 0 /\ i > r) THEN st
    ELSE LET c == sessions[order[i]] IN
         CloseEach(order, r, i + 1,
                   [clients |-> Disconnected(st.clients, c),
                    srv |-> SrvDropClient(st.srv, c),
                    sessions |-> IF i = r THEN st.sessions
                                 ELSE DictDel(st.sessions, order[i]),
                    closed |-> IF i = r THEN st.closed ELSE st.closed \cup {c}])

MSM_CloseAllSessions ==
    /\ upc = "idle"
    /\ \E order \in KeyOrders(DOMAIN sessions), r \in 0..Cardinality(DOMAIN sessions) :
          /\ r # 0 => "raise" \in DisconnectOutcomes(sessions[order[r]])
          /\ LET st == CloseEach(order, r, 1,
                                 [clients |-> clients, srv |-> srv,
                                  sessions |-> sessions, closed |-> userClosed])
             IN /\ clients' = st.clients
                /\ srv' = st.srv
                /\ sessions' = st.sessions
                /\ userClosed' = st.closed
          /\ lastCall' = Call("msm_close_all_sessions", "none", NoClient,
                              IF r = 0 THEN "ok" ELSE "raise", DOMAIN sessions # {})
    /\ UNCHANGED <<ka, keep_alive_tasks, envVars, libVars, appVars>>

(***************************************************************************)
(* SpecManager: the sessions of a MultiSessionManager, created, closed one *)
(* by one and closed all at once, with link failures and the keep-alive    *)
(* workers.                                                                *)
(***************************************************************************)
NextManager ==
    \/ \E name \in Names, url \in Urls : MSM_CreateSession(name, url)
    \/ \E name \in Names : MSM_CloseSession(name)
    \/ MSM_CloseAllSessions
    \/ \E c \in 1..MaxClients : KeepAliveUp(c)
    \/ \E c \in 1..MaxClients : LinkFail(c)

SpecManager == Init /\ [][NextManager]_vars

\* C33: when close_all_sessions has returned or raised, the manager holds
\* no session.
C33_CloseAllLeavesNoSession ==
    [][ lastCall'.op = "msm_close_all_sessions" => sessions' = EmptyDict ]_vars



(***************************************************************************)
(* connection.create_session where client.connect() returns and the        *)
(* verification read get_namespace_array() raises (lines 229-232, 255-261):*)
(* the exception is logged and raised again. The read fails because the    *)
(* link has failed or because the server answers it with an error; in the  *)
(* second case the connection is still up.                                 *)
(***************************************************************************)
MSM_CreateSessionUnverified(name, url) ==
    /\ upc = "idle"
    /\ ~MSM_NameInUse(name)
    /\ Len(clients) < MaxClients
    /\ CreateSessionOk(url)
    /\ \E conn \in {"connected", "lost"} :
          clients' = Append(clients, [url |-> url, conn |-> conn])
    /\ ka' = Append(ka, KaIdle)
    /\ lastCall' = Call("msm_create_session", name, NewClient, "raise", FALSE)
    /\ UNCHANGED <<keep_alive_tasks, srv, sessions, envVars, libVars, appVars, userClosed>>

(***************************************************************************)
(* SpecCreate: sessions created through the session manager against        *)
(* servers that go down and come back, with both ways create_session can   *)
(* fail.                                                                   *)
(***************************************************************************)
NextCreate ==
    \/ \E name \in Names, url \in Urls : MSM_CreateSession(name, url)
    \/ \E name \in Names, url \in Urls : MSM_CreateSessionUnverified(name, url)
    \/ \E name \in Names : MSM_CloseSession(name)
    \/ \E c \in 1..MaxClients : LinkFail(c)
    \/ \E u \in Urls : ServerDown(u)
    \/ \E u \in Urls : ServerUp(u)

SpecCreate == Init /\ [][NextCreate]_vars

\* C34: when create_session of the session manager has raised from the
\* connect or from the verification read, the requested name holds no
\* session, the client of the attempt has no keep-alive task and that
\* client is not connected.
C34_FailedCreateLeavesNothing ==
    [][ (lastCall'.op = "msm_create_session" /\ lastCall'.res = "raise")
        => /\ lastCall'.name \notin DOMAIN sessions'
           /\ ka'[lastCall'.cl].st = "none"
           /\ clients'[lastCall'.cl].conn # "connected"
      ]_vars



(***************************************************************************)
(* OpcUaClient.create_subscription(period, callback, node_id) with a       *)
(* callback and a node id, lines 163-188: the connection check, the        *)
(* creation, the append to self.subscriptions, then subscribe_data_change, *)
(* whose exception propagates. The link may fail between the two requests. *)
(***************************************************************************)
OpcUaClient_create_subscription_node(n, holds) ==
    /\ upc = "idle"
    /\ nextSubId <= MaxSubId
    /\ Len(ocl.subscriptions) < MaxSubs
    /\ IF ~CheckConnectionOk
       THEN /\ lastCall' = SubCall("oc_create_subscription_node", NoClient, 0, "RuntimeError")
            /\ UNCHANGED <<clients, srv, nextSubId, ocl, subObjs, itemData>>
       ELSE IF clients[ocl.client].conn # "connected"
       THEN /\ lastCall' = SubCall("oc_create_subscription_node", ocl.client, 0, "raise")
            /\ UNCHANGED <<clients, srv, nextSubId, ocl, subObjs, itemData>>
       ELSE LET sub == [id |-> nextSubId, client |-> ocl.client]
                sv == DictSet(srv, nextSubId, SrvNewSub(ocl.client))
                added == holds /\ ItemCreatable(n)
            IN
            /\ clients' = IF holds THEN clients
                          ELSE [clients EXCEPT ![ocl.client].conn = "lost"]
            /\ nextSubId' = nextSubId + 1
            /\ ocl' = [ocl EXCEPT !.subscriptions = Append(@, sub)]
            /\ srv' = IF added THEN SrvAddItem(sv, sub.id) ELSE sv
            /\ itemData' = DictSet(itemData, sub.id,
                                   IF added
                                   THEN DictSet(EmptyDict, sv[sub.id].nh, [mfilter |-> NoFilter])
                                   ELSE EmptyDict)
            /\ subObjs' = IF added THEN subObjs \cup {sub} ELSE subObjs
            /\ lastCall' = SubCall("oc_create_subscription_node", ocl.client, sub.id,
                                   IF added THEN "ok" ELSE "raise")
    /\ UNCHANGED <<ka, keep_alive_tasks, sessions, srvUp, srvNodes, cobj, handler, fm,
                   appVars, userClosed>>

(***************************************************************************)
(* SpecSubNode: an OpcUaClient whose subscriptions are created together    *)
(* with their first monitored item, on a server whose nodes can disappear  *)
(* and with link failures.                                                 *)
(***************************************************************************)
NextSubNode ==
    \/ \E url \in Urls : OpcUaClient_connect(url)
    \/ \E n \in NodeIds, holds \in BOOLEAN : OpcUaClient_create_subscription_node(n, holds)
    \/ \E sub \in subObjs : OpcUaClient_delete_subscription(sub)
    \/ \E n \in NodeIds : NodeDelete(n)
    \/ \E c \in 1..MaxClients : LinkFail(c)

SpecSubNode == Init /\ [][NextSubNode]_vars

\* C35: when create_subscription(period, callback, node_id) has raised, the
\* list self.subscriptions is the one before the call and the server holds
\* no subscription it did not hold before.
C35_FailedItemLeavesNoSubscription ==
    [][ (lastCall'.op = "oc_create_subscription_node" /\ lastCall'.res = "raise")
        => /\ ocl'.subscriptions = ocl.subscriptions
           /\ DOMAIN srv' \subseteq DOMAIN srv
      ]_vars



(***************************************************************************)
(* subscription.create_subscription(client, period, lifetime_count,        *)
(* max_keep_alive_count, priority), lines 84-216.                          *)
(***************************************************************************)
\* The four calls of client.create_subscription, lines 127-161: shape 1 with
\* lifetime= and maxkeepalive=, shape 2 with lifetime_count= and
\* max_keep_alive_count=, shape 3 with positional arguments, shape 4 with
\* period and handler only. Which of them the library accepts without a
\* TypeError is the library's matter.
CreateShapes == 1..4

\* The CreateSubscription request of a shape: shapes 1-3 pass the validated
\* values; shape 4 passes the period, and the library fills in the counts
\* (lib) and priority 0.
CreateRequest(shape, v, lib) ==
    IF shape \in 1..3 THEN v
    ELSE [lib EXCEPT !.publishing_interval = v.publishing_interval, !.priority = 0]

\* Shape 4, lines 159-165: modify_subscription(subscription, period,
\* lifetime_count, max_keep_alive_count) follows the creation. The
\* ModifySubscription request (lines 243-287) carries the validated values
\* and priority 0; with no API to send it (lines 289-299) nothing is sent.
ModifyRequest(shape, api, v) ==
    IF shape = 4 /\ api # "none" THEN <<[v EXCEPT !.priority = 0]>> ELSE <<>>

\* The parameters the server runs the new subscription with: those of the
\* last request it has accepted.
CreateRevised(shape, api, ans, v, lib) ==
    IF shape = 4 /\ api # "none" /\ ans = "Good"
    THEN [v EXCEPT !.priority = 0]
    ELSE CreateRequest(shape, v, lib)

CreateCall(cl, sub, res, p, shape, create, modify) ==
    [op |-> "create_subscription", name |-> "none", cl |-> cl, sub |-> sub,
     res |-> res, disc |-> FALSE, req |-> p,
     validated |-> validate_subscription_parameters(p),
     shape |-> shape, create |-> create, modify |-> modify]

Lib_create_subscription(p, shape, lib, api, ans) ==
    /\ upc = "idle"
    /\ CheckConnectionOk
    /\ nextSubId <= MaxSubId
    /\ Cardinality(subObjs) < MaxSubs
    /\ shape \in 1..3 => (api = "none" /\ ans = "none" /\ lib = p)
    /\ shape = 4 => (ans = "none") = (api = "none")
    /\ LET v == validate_subscription_parameters(p)
           sub == [id |-> nextSubId, client |-> ocl.client]
       IN IF clients[ocl.client].conn # "connected"
          THEN /\ lastCall' = CreateCall(ocl.client, 0, "raise", p, shape, <<>>, <<>>)
               /\ UNCHANGED <<srv, nextSubId, subObjs, itemData>>
          ELSE /\ srv' = DictSet(srv, nextSubId,
                                 SrvNewSubRevised(ocl.client,
                                                  CreateRevised(shape, api, ans, v, lib)))
               /\ nextSubId' = nextSubId + 1
               /\ subObjs' = subObjs \cup {sub}
               /\ itemData' = DictSet(itemData, sub.id, EmptyDict)
               /\ lastCall' = CreateCall(ocl.client, sub.id, "ok", p, shape,
                                         <<CreateRequest(shape, v, lib)>>,
                                         ModifyRequest(shape, api, v))
    /\ UNCHANGED <<clients, ka, keep_alive_tasks, sessions, srvUp, srvNodes, ocl, cobj,
                   handler, fm, appVars, userClosed>>

(***************************************************************************)
(* SpecValidate: subscriptions created through                             *)
(* subscription.create_subscription with every requested parameter set,    *)
(* every call shape and every way the follow-up modification can go.       *)
(***************************************************************************)
NextValidate ==
    \/ \E url \in Urls : OpcUaClient_connect(url)
    \/ \E p \in RequestedParams, shape \in CreateShapes, lib \in RequestedParams,
          api \in ModifyApis, ans \in ServerAnswers(TRUE) \cup {"none"} :
          Lib_create_subscription(p, shape, lib, api, ans)
    \/ \E c \in 1..MaxClients : LinkFail(c)

SpecValidate == Init /\ [][NextValidate]_vars

\* C36: for a subscription that create_subscription has created, the
\* validated parameters keep the period and the keep-alive count of the
\* request, their lifetime count is the larger of the requested one and
\* three times the keep-alive count, validating them again changes nothing,
\* and they are the values sent to the server: in the CreateSubscription
\* request on shapes 1-3, in the ModifySubscription request that follows the
\* creation on shape 4.
C36_ValidatedParametersSent ==
    (lastCall.op = "create_subscription" /\ lastCall.res = "ok")
    => LET p == lastCall.req
           v == lastCall.validated
       IN /\ v.publishing_interval = p.publishing_interval
          /\ v.max_keep_alive_count = p.max_keep_alive_count
          /\ v.lifetime_count >= 3 * v.max_keep_alive_count
          /\ v.lifetime_count = IF p.lifetime_count >= 3 * p.max_keep_alive_count
                                THEN p.lifetime_count ELSE 3 * p.max_keep_alive_count
          /\ validate_subscription_parameters(v) = v
          /\ lastCall.shape \in 1..3 => lastCall.create = <<v>>
          /\ lastCall.shape = 4 => lastCall.modify = <<[v EXCEPT !.priority = 0]>>



(***************************************************************************)
(* DataChangeHandler constructed with store_values=True and the max_values *)
(* the user enters in handle_create_monitored_item (opcua_app_handlers     *)
(* 696-702): any integer int() accepts.                                    *)
(***************************************************************************)
MaxValuesInputs == {0, 1, 2}

\* DataChangeHandler.__init__, lines 417-442.
DataChangeHandler_init(mv) ==
    /\ handler = NewHandler
    /\ handler' = [NewHandler EXCEPT !.max_values = mv]
    /\ UNCHANGED notHandler

(***************************************************************************)
(* SpecStore: a handler with a small max_values and the notifications it   *)
(* stores.                                                                 *)
(***************************************************************************)
NextStore ==
    \/ \E mv \in MaxValuesInputs : DataChangeHandler_init(mv)
    \/ NextHandler

SpecStore == Init /\ [][NextStore]_vars

\* The last n elements of a sequence, all of them when it has fewer.
LastN(s, n) == IF Len(s) <= n THEN s ELSE SubSeq(s, Len(s) - n + 1, Len(s))

\* C37: for every node, stored_values[node] has at most max_values entries
\* and they are the most recent values the handler has taken in, in the
\* order in which it took them in.
C37_StoredValuesBounded ==
    \A n \in NodeIds :
        /\ Len(handler.stored_values[n]) <= handler.max_values
        /\ handler.stored_values[n] = LastN(handler.given[n], handler.max_values)



(***************************************************************************)
(* method.find_methods(client, parent_id), lines 198-249, on a connection  *)
(* that holds. The address space is what get_references() answers for     *)
(* each node: the Object nodes (refs) and the Method nodes (methods) it    *)
(* refers to. Each call of the recursion is a frame: its node, the Object  *)
(* references it has not yet descended into, and its list 'methods'.       *)
(***************************************************************************)
RecursionLimit == 3      \* nested find_methods calls the interpreter's stack holds

Objects == {"o1", "o2"}
Methods == {"m1"}

\* The address spaces of the model: every way the objects can refer to one
\* another, themselves included, and every placement of the method.
ObjectRefs == [Objects -> SUBSET Objects]
MethodRefs == [Objects -> SUBSET Methods]

notFind == <<connVars, sessions, envVars, ocl, cobj, subObjs, itemData, handler,
             appVars, userClosed, lastCall>>

RECURSIVE SetToSeq(_)
SetToSeq(S) ==
    IF S = {} THEN <<>>
    ELSE LET x == CHOOSE y \in S : TRUE IN <<x>> \o SetToSeq(S \ {x})

\* lines 214-235: the references of the node are read and every Method among
\* them is put on the list with the node as its ParentId.
Frame(node, refs, methods) ==
    [node |-> node, todo |-> refs[node],
     methods |-> [i \in 1..Cardinality(methods[node]) |->
                     [NodeId |-> SetToSeq(methods[node])[i], ParentId |-> node]]]

\* find_methods(client, "o1") is called.
FM_Start(refs, methods) ==
    /\ fm.st = "idle"
    /\ fm' = [st |-> "running", refs |-> refs, methods |-> methods,
              stack |-> <<Frame("o1", refs, methods)>>,
              overflow |-> FALSE, result |-> <<>>]
    /\ UNCHANGED notFind

\* lines 238-244: the loop reaches an Object reference and calls
\* find_methods for it. With RecursionLimit calls already nested the call
\* ends in a RecursionError, which the except branch at line 243 logs.
FM_Descend(c) ==
    /\ fm.st = "running"
    /\ LET d == Len(fm.stack) IN
       /\ c \in fm.stack[d].todo
       /\ fm' = IF d >= RecursionLimit
                THEN [fm EXCEPT !.stack[d].todo = @ \ {c}, !.overflow = TRUE]
                ELSE [fm EXCEPT !.stack = Append([@ EXCEPT ![d].todo = @ \ {c}],
                                                 Frame(c, fm.refs, fm.methods))]
    /\ UNCHANGED notFind

\* lines 241-242, 246: the loop of the innermost call is over; it returns its
\* list, which the caller appends to its own.
FM_Return ==
    /\ fm.st = "running"
    /\ LET d == Len(fm.stack) IN
       /\ fm.stack[d].todo = {}
       /\ fm' = IF d = 1
                THEN [fm EXCEPT !.st = "done", !.stack = <<>>,
                                !.result = fm.stack[1].methods]
                ELSE [fm EXCEPT !.stack =
                         [SubSeq(@, 1, d - 1) EXCEPT ![d - 1].methods =
                             @ \o fm.stack[d].methods]]
    /\ UNCHANGED notFind

(***************************************************************************)
(* SpecFind: one call of find_methods on each address space.               *)
(***************************************************************************)
NextFind ==
    \/ \E refs \in ObjectRefs, methods \in MethodRefs : FM_Start(refs, methods)
    \/ \E c \in Objects : FM_Descend(c)
    \/ FM_Return

SpecFind == Init /\ [][NextFind]_vars

\* C38: a call of find_methods never nests so deep that it is ended by the
\* interpreter's recursion limit, and the list it returns names no method
\* twice with the same parent.
C38_FindMethodsTerminates ==
    /\ ~fm.overflow
    /\ \A i, j \in 1..Len(fm.result) : fm.result[i] = fm.result[j] => i = j

=============================================================================
